---- MODULE Spec2Model ----
(***************************************************************************)
(* Model of automara/content-pipeline: the webhook gateway                 *)
(* (src/routes/webhook.ts, src/routes/keyword.ts), the record accessor     *)
(* (lib/airtable.ts), and the Inngest stage functions generate-outline,    *)
(* generate-draft, finalize-content and batch-trigger.                     *)
(*                                                                         *)
(* JavaScript values are records [t, v]: t is the value's kind and v a     *)
(* sequence of tokens (the characters of a string, the elements of an      *)
(* array; empty for undefined, null and numbers).  A key that is absent    *)
(* from an object reads as Undefined, as it does in JavaScript.            *)
(***************************************************************************)
EXTENDS Integers, Sequences, FiniteSets, TLC

VARIABLES
  env,      \* process.env.WEBHOOK_SECRET
  store,    \* the "Content Pipeline" table: record id -> fields
  inbox,    \* the HTTP request being delivered to the server, or NoRequest
  last,     \* what the server did with the last request it handled
  queue,    \* events sent to Inngest and not yet dispatched to a function
  runs,     \* the Inngest function runs: run id -> run state
  arrived,  \* number of webhook requests delivered so far
  finalizeImpl, \* which revision of finalize-content is deployed
  llmMode,  \* how the Claude API behaves: "up", "flaky" or "down"
  lastWrite, \* the record writes of the last function step: {[id, old, new, by, fields]}
  files,    \* the context directory: file name -> content (Undefined: no such file)
  contextCache, \* the Map of lib/context.ts: file name -> content (Undefined: no entry)
  artifacts, \* the active rows of the Context Artifacts table, in the order Airtable returns them
  returned, \* the last call of the context loader and what it returned
  keywordBank, \* the "Keyword Bank" table: record id -> fields
  ideas,    \* the "Content Ideas" table: record id -> fields
  jobs      \* the "Research Jobs" table: record id -> fields

vars == <<env, store, inbox, last, queue, runs, arrived, finalizeImpl, llmMode, lastWrite,
          files, contextCache, artifacts, returned, keywordBank, ideas, jobs>>

\* The state of the context loader and of the Context Artifacts table
ContextVars == <<files, contextCache, artifacts, returned>>

\* The tables of the keyword ideation base
KeywordVars == <<keywordBank, ideas, jobs>>

----------------------------------------------------------------------------
(* JavaScript values *)

Undefined == [t |-> "undefined", v |-> <<>>]
Null == [t |-> "null", v |-> <<>>]
Num == [t |-> "number", v |-> <<>>]
Str(s) == [t |-> "string", v |-> s]
Arr(a) == [t |-> "array", v |-> a]

\* typeof x
TypeOf(x) == IF x.t \in {"null", "array"} THEN "object" ELSE x.t

\* Boolean(x): undefined, null and "" are falsy (Num stands for a non-zero number)
Truthy(x) == CASE x.t \in {"undefined", "null"} -> FALSE
               [] x.t = "string" -> x.v # <<>>
               [] OTHER -> TRUE

\* a || b
OrElse(a, b) == IF Truthy(a) THEN a ELSE b

Whitespace == {" ", "\t"}

RECURSIVE TrimStart(_)
TrimStart(s) == IF s # <<>> /\ Head(s) \in Whitespace THEN TrimStart(Tail(s)) ELSE s

RECURSIVE TrimEnd(_)
TrimEnd(s) == IF s # <<>> /\ s[Len(s)] \in Whitespace
              THEN TrimEnd(SubSeq(s, 1, Len(s) - 1)) ELSE s

\* String.prototype.trim
Trim(s) == TrimEnd(TrimStart(s))

\* x?.[0] on an optional array of linked record ids
FirstOf(x) == IF x.t = "array" /\ x.v # <<>> THEN Str(<<x.v[1]>>) ELSE Undefined

\* The keys an object of this model may carry
Keys == {"recordId", "title", "contentType", "industryId", "personaId", "keywords",
         "outline", "draft", "feedback", "recordIds", "action",
         "keyword", "seedTopic", "scope", "extra", "industryName", "personaName",
         "companyProfile", "voiceGuidelines", "productOverview", "differentiators"}

EmptyObj == [k \in Keys |-> Undefined]

----------------------------------------------------------------------------
(* Zod schemas of the routes *)

startSchema ==
  [required |-> {"recordId", "title", "contentType"},
   optional |-> {"industryId", "personaId", "keywords"}]

outlineApprovedSchema ==
  [required |-> {"recordId", "outline"}, optional |-> {"feedback"}]

draftApprovedSchema ==
  [required |-> {"recordId", "draft"}, optional |-> {"feedback"}]

researchSchema == [required |-> {"recordId", "keyword"}, optional |-> {}]

clusterSchema == [required |-> {"recordId", "seedTopic"}, optional |-> {}]

generateTitleSchema == [required |-> {"recordId"}, optional |-> {}]

promoteSchema == [required |-> {"recordId"}, optional |-> {}]

\* z.string() accepts strings only; .optional() also accepts an absent key
SchemaAccepts(schema, body) ==
  /\ \A k \in schema.required : body[k].t = "string"
  /\ \A k \in schema.optional : body[k].t \in {"string", "undefined"}

\* Mutant of Parse: a passthrough object schema, unknown keys kept
ParseKeepsUnknown(schema, body) == body

\* schema.parse(body) of a z.object: unknown keys are stripped
Parse(schema, body) ==
  [k \in Keys |-> IF k \in schema.required \cup schema.optional
                   THEN body[k] ELSE Undefined]

GapScopes == {<<"all">>, <<"industries">>, <<"personas">>, <<"problems">>}

\* gapScanSchema: scope is an optional enum
GapScanAccepts(body) ==
  \/ body.scope = Undefined
  \/ body.scope.t = "string" /\ body.scope.v \in GapScopes

----------------------------------------------------------------------------
(* Record accessor *)

Statuses == <<"Draft", "Ready", "Generating", "Outline Review", "Outline Approved",
              "Drafting", "Draft Review", "Draft Approved", "Complete", "Error">>

\* getRecord: contentTable.find throws NOT_FOUND for an id the table lacks
RecordFound(id) == id.t = "string" /\ Len(id.v) = 1 /\ id.v[1] \in DOMAIN store

getRecord(id) == store[id.v[1]]

NotFoundError(id) == <<"Error: Airtable record not found: ">> \o id.v

----------------------------------------------------------------------------
(* Webhook gateway *)

NoRequest == [route |-> "none", secret |-> Undefined, body |-> EmptyObj]

NoResponse ==
  [route |-> "none", secret |-> Undefined, body |-> EmptyObj, status |-> 0,
   success |-> FALSE, error |-> <<>>, emitted |-> <<>>, reads |-> 0]

Event(name, data) == [name |-> name, data |-> data]

\* Mutant of Respond: an event equal to one already pending or already
\* being handled by a run is not sent again
RespondDeduplicated(status, success, error, emitted, reads) ==
  /\ last' = [route |-> inbox.route, secret |-> inbox.secret, body |-> inbox.body,
              status |-> status, success |-> success, error |-> error,
              emitted |-> emitted, reads |-> reads]
  /\ queue' = queue \o SelectSeq(emitted,
                                 LAMBDA e : /\ \A i \in 1..Len(queue) : queue[i] # e
                                            /\ \A r \in DOMAIN runs : runs[r].ev # e.data)
  /\ inbox' = NoRequest
  /\ UNCHANGED <<env, store, runs, arrived, finalizeImpl, llmMode, lastWrite,
               ContextVars, KeywordVars>>

\* res.status(code).json(...) after sending the events and reading `reads` records
Respond(status, success, error, emitted, reads) ==
  /\ last' = [route |-> inbox.route, secret |-> inbox.secret, body |-> inbox.body,
              status |-> status, success |-> success, error |-> error,
              emitted |-> emitted, reads |-> reads]
  /\ queue' = queue \o emitted
  /\ inbox' = NoRequest
  /\ UNCHANGED <<env, store, runs, arrived, finalizeImpl, llmMode, lastWrite,
               ContextVars, KeywordVars>>

\* authenticateWebhook lets the request through
Authenticated(req) == ~(req.secret # env)

\* authenticateWebhook answers 401 (both routers install the same middleware)
authenticateWebhook ==
  /\ inbox # NoRequest
  /\ ~Authenticated(inbox)
  /\ Respond(401, FALSE, <<"Unauthorized">>, <<>>, 0)

\* router.post("/start")
PostStart ==
  /\ inbox.route = "start"
  /\ Authenticated(inbox)
  /\ IF SchemaAccepts(startSchema, inbox.body)
     THEN Respond(200, TRUE, <<>>,
                  <<Event("content/pipeline.start", Parse(startSchema, inbox.body))>>, 0)
     ELSE Respond(400, FALSE, <<"ZodError">>, <<>>, 0)

\* Mutant of FieldError: the emptiness check without trim()
FieldErrorNoTrim(name, x) ==
  IF x.t \in {"undefined", "null"}
  THEN <<"Missing required field: ", name>>
  ELSE IF TypeOf(x) # "string"
  THEN <<"Invalid ", name, " field type. Expected string, got ", TypeOf(x)>>
  ELSE IF x.v = <<>>
  THEN <<name, " field is empty">>
  ELSE <<>>

\* The three-tier check of one required field of the fetched record:
\* the 400 message, or <<>> when the field passes
FieldError(name, x) ==
  IF x.t \in {"undefined", "null"}
  THEN <<"Missing required field: ", name>>
  ELSE IF TypeOf(x) # "string"
  THEN <<"Invalid ", name, " field type. Expected string, got ", TypeOf(x)>>
  ELSE IF Trim(x.v) = <<>>
  THEN <<name, " field is empty">>
  ELSE <<>>

\* Mutant of RecordError: Content Type checked before Title
RecordErrorContentTypeFirst(record) ==
  IF FieldError("Content Type", record.ContentType) # <<>>
  THEN FieldError("Content Type", record.ContentType)
  ELSE FieldError("Title", record.Title)

\* Title is checked before Content Type
RecordError(record) ==
  IF FieldError("Title", record.Title) # <<>>
  THEN FieldError("Title", record.Title)
  ELSE FieldError("Content Type", record.ContentType)

\* Mutant of OutlineApprovedData: personaId read from the Industry link
OutlineApprovedDataWrongLink(webhookData, record) ==
  [EmptyObj EXCEPT
     !.recordId = webhookData.recordId,
     !.outline = webhookData.outline,
     !.feedback = webhookData.feedback,
     !.title = record.Title,
     !.contentType = record.ContentType,
     !.industryId = FirstOf(record.Industry),
     !.personaId = FirstOf(record.Industry),
     !.keywords = OrElse(record.TargetKeywords, Undefined)]

\* The data of the enriched content/outline.approved event
OutlineApprovedData(webhookData, record) ==
  [EmptyObj EXCEPT
     !.recordId = webhookData.recordId,
     !.outline = webhookData.outline,
     !.feedback = webhookData.feedback,
     !.title = record.Title,
     !.contentType = record.ContentType,
     !.industryId = FirstOf(record.Industry),
     !.personaId = FirstOf(record.Persona),
     !.keywords = OrElse(record.TargetKeywords, Undefined)]

\* router.post("/outline-approved")
PostOutlineApproved ==
  /\ inbox.route = "outline-approved"
  /\ Authenticated(inbox)
  /\ LET webhookData == Parse(outlineApprovedSchema, inbox.body) IN
     IF ~SchemaAccepts(outlineApprovedSchema, inbox.body)
     THEN Respond(400, FALSE, <<"ZodError">>, <<>>, 0)
     ELSE IF ~RecordFound(webhookData.recordId)
     THEN Respond(400, FALSE, NotFoundError(webhookData.recordId), <<>>, 1)
     ELSE LET record == getRecord(webhookData.recordId) IN
          IF RecordError(record) # <<>>
          THEN Respond(400, FALSE, RecordError(record), <<>>, 1)
          ELSE Respond(200, TRUE, <<>>,
                       <<Event("content/outline.approved",
                               OutlineApprovedData(webhookData, record))>>, 1)

\* Mutant of DraftApprovedData: the feedback is left out of the event
DraftApprovedDataNoFeedback(webhookData) ==
  [EmptyObj EXCEPT
     !.recordId = webhookData.recordId,
     !.draft = webhookData.draft]

\* The data of the content/draft.approved event
DraftApprovedData(webhookData) ==
  [EmptyObj EXCEPT
     !.recordId = webhookData.recordId,
     !.draft = webhookData.draft,
     !.feedback = webhookData.feedback]

\* router.post("/draft-approved")
PostDraftApproved ==
  /\ inbox.route = "draft-approved"
  /\ Authenticated(inbox)
  /\ LET webhookData == Parse(draftApprovedSchema, inbox.body) IN
     IF ~SchemaAccepts(draftApprovedSchema, inbox.body)
     THEN Respond(400, FALSE, <<"ZodError">>, <<>>, 0)
     ELSE IF ~RecordFound(webhookData.recordId)
     THEN Respond(400, FALSE, NotFoundError(webhookData.recordId), <<>>, 1)
     ELSE Respond(200, TRUE, <<>>,
                  <<Event("content/draft.approved", DraftApprovedData(webhookData))>>, 1)

\* Maximum number of record ids the batch route accepts
MaxBatchSize == 100

\* Mutant of BatchError: the limit compared with >=
BatchErrorOffByOne(recordIds) ==
  IF recordIds.t # "array" \/ Len(recordIds.v) = 0
  THEN <<"recordIds must be a non-empty array">>
  ELSE IF Len(recordIds.v) >= MaxBatchSize
  THEN <<"Maximum 100 records per batch">>
  ELSE <<>>

\* The size checks of router.post("/batch"): the 400 message, or <<>>
BatchError(recordIds) ==
  IF recordIds.t # "array" \/ Len(recordIds.v) = 0
  THEN <<"recordIds must be a non-empty array">>
  ELSE IF Len(recordIds.v) > MaxBatchSize
  THEN <<"Maximum 100 records per batch">>
  ELSE <<>>

\* router.post("/batch")
PostBatch ==
  /\ inbox.route = "batch"
  /\ Authenticated(inbox)
  /\ IF BatchError(inbox.body.recordIds) # <<>>
     THEN Respond(400, FALSE, BatchError(inbox.body.recordIds), <<>>, 0)
     ELSE Respond(200, TRUE, <<>>,
                  <<Event("content/batch.trigger",
                          [EmptyObj EXCEPT !.recordIds = inbox.body.recordIds,
                                           !.action = inbox.body.action])>>, 0)

KeywordRoutes == {"research", "gap-scan", "cluster", "generate-title", "promote"}

KeywordSchema(route) ==
  CASE route = "research" -> researchSchema
    [] route = "cluster" -> clusterSchema
    [] route = "generate-title" -> generateTitleSchema
    [] OTHER -> promoteSchema

KeywordEventName(route) ==
  CASE route = "research" -> "keyword/research.start"
    [] route = "gap-scan" -> "keyword/gap-analysis.start"
    [] route = "cluster" -> "keyword/cluster.auto"
    [] route = "generate-title" -> "keyword/generate-title"
    [] OTHER -> "keyword/promote"

\* router.post of src/routes/keyword.ts: research, gap-scan, cluster,
\* generate-title, promote
PostKeyword ==
  /\ inbox.route \in KeywordRoutes
  /\ Authenticated(inbox)
  /\ IF inbox.route = "gap-scan"
     THEN IF GapScanAccepts(inbox.body)
          THEN Respond(200, TRUE, <<>>,
                 <<Event("keyword/gap-analysis.start",
                         [EmptyObj EXCEPT !.scope = OrElse(inbox.body.scope, Str(<<"all">>))])>>, 0)
          ELSE Respond(400, FALSE, <<"Invalid request data">>, <<>>, 0)
     ELSE IF SchemaAccepts(KeywordSchema(inbox.route), inbox.body)
          THEN Respond(200, TRUE, <<>>,
                 <<Event(KeywordEventName(inbox.route),
                         Parse(KeywordSchema(inbox.route), inbox.body))>>, 0)
          ELSE Respond(400, FALSE, <<"Invalid request data">>, <<>>, 0)

----------------------------------------------------------------------------
(* Requests and tables the gateway is exercised with *)

Secret == Str(<<"s3cret">>)

\* X-Webhook-Secret: absent, the configured value, another value
Headers == {Undefined, Secret, Str(<<"wrong">>)}

\* WEBHOOK_SECRET: not set, or set
Envs == {Undefined, Secret}

Fields(title, contentType, industry, persona, keywords, status) ==
  [Title |-> title, ContentType |-> contentType, Industry |-> industry,
   Persona |-> persona, TargetKeywords |-> keywords, Status |-> status,
   Outline |-> Undefined, OutlineFeedback |-> Undefined,
   Draft |-> Undefined, DraftFeedback |-> Undefined,
   FinalContent |-> Undefined, RunID |-> Undefined]

RecIds == {"rec1", "rec2"}

DefaultStore ==
  [id \in RecIds |->
     IF id = "rec1"
     THEN Fields(Str(<<"T">>), Str(<<"blog">>), Arr(<<"i1">>), Arr(<<"p1">>),
                 Str(<<"k">>), "Ready")
     ELSE Fields(Str(<<"U">>), Str(<<"guide">>), Undefined, Undefined,
                 Undefined, "Ready")]

\* What an Airtable cell of a required text field has been seen to hold
CellValues == {Undefined, Null, Num, Arr(<<"x">>), Str(<<>>), Str(<<" ", "\t">>),
               Str(<<"T">>), Str(<<" ", "blog", " ">>)}

LinkValues == {Undefined, Arr(<<>>), Arr(<<"i1", "i2">>)}

KeywordValues == {Undefined, Str(<<>>), Str(<<"k">>), Str(<<" ">>)}

\* Tables in which rec1 holds every combination of cell values
WideStores ==
  {[DefaultStore EXCEPT !["rec1"] = Fields(t, c, i, p, k, "Outline Approved")] :
     t \in CellValues, c \in CellValues, i \in LinkValues,
     p \in {Undefined, Arr(<<"p1">>)}, k \in KeywordValues}

Req(route, secret, body) == [route |-> route, secret |-> secret, body |-> body]

StartBodies ==
  {[EmptyObj EXCEPT !.recordId = r, !.title = t, !.contentType = c,
                    !.industryId = i, !.personaId = p, !.keywords = k, !.extra = x] :
     r \in {Undefined, Num, Str(<<"rec1">>)},
     t \in {Undefined, Null, Str(<<"T">>)},
     c \in {Undefined, Str(<<"blog">>)},
     i \in {Undefined, Null, Str(<<"i1">>)},
     p \in {Undefined, Str(<<"p1">>)},
     k \in {Undefined, Num, Str(<<"k">>)},
     x \in {Undefined, Str(<<"x">>)}}

OutlineBodies ==
  {[EmptyObj EXCEPT !.recordId = r, !.outline = o, !.feedback = f, !.title = t] :
     r \in {Undefined, Str(<<"rec1">>), Str(<<"recX">>)},
     o \in {Undefined, Str(<<"o">>)},
     f \in {Undefined, Null, Str(<<>>), Str(<<"f">>)},
     t \in {Undefined, Str(<<"REQ">>)}}

DraftBodies ==
  {[EmptyObj EXCEPT !.recordId = r, !.draft = d, !.feedback = f, !.title = t] :
     r \in {Undefined, Str(<<"rec1">>), Str(<<"recX">>)},
     d \in {Undefined, Str(<<"d">>)},
     f \in {Undefined, Null, Str(<<>>), Str(<<"f">>)},
     t \in {Undefined, Str(<<"REQ">>)}}

\* Largest recordIds array sent to the batch route
MaxBatchLen == 102

\* An array of n record ids
Ids(n) == Arr([i \in 1..n |-> IF i % 2 = 1 THEN "rec1" ELSE "rec2"])

BatchBodies ==
  {[EmptyObj EXCEPT !.recordIds = r, !.action = a] :
     r \in {Undefined, Num, Str(<<"rec1">>)} \cup {Ids(n) : n \in 0..MaxBatchLen},
     a \in {Undefined, Str(<<"start">>), Str(<<"continue">>)}}

KeywordBodies ==
  {[EmptyObj EXCEPT !.recordId = r, !.keyword = k, !.seedTopic = k, !.scope = s] :
     r \in {Undefined, Str(<<"kw1">>)},
     k \in {Undefined, Str(<<"seo">>)},
     s \in {Undefined, Str(<<"personas">>), Str(<<"bogus">>)}}

GatewayRequests ==
  {Req("start", h, b) : h \in Headers, b \in StartBodies}
  \cup {Req("outline-approved", h, b) : h \in Headers, b \in OutlineBodies}
  \cup {Req("draft-approved", h, b) : h \in Headers, b \in DraftBodies}
  \cup {Req("batch", h, b) : h \in Headers, b \in BatchBodies}
  \cup {Req(r, h, b) : r \in KeywordRoutes, h \in Headers, b \in KeywordBodies}

\* Schema-valid, authenticated approvals of rec1, carrying a stray title key
EnrichRequests ==
  {Req(r, Secret, [EmptyObj EXCEPT !.recordId = Str(<<"rec1">>),
                                   !.outline = Str(<<"o">>), !.draft = Str(<<"d">>),
                                   !.feedback = f, !.title = Str(<<"REQ">>)]) :
     r \in {"outline-approved", "draft-approved"}, f \in {Undefined, Str(<<"f">>)}}

\* Placeholder for a record a run has not fetched
NoFields == Fields(Undefined, Undefined, Undefined, Undefined, Undefined, "none")

\* A run slot no event has been dispatched to
NoRun ==
  [fn |-> "none", pc |-> "idle", ev |-> EmptyObj, attempt |-> 0,
   record |-> NoFields, ctx |-> [industry |-> Null, persona |-> Null, keywords |-> Undefined],
   text |-> Undefined, llm |-> <<>>, events |-> <<>>, chunk |-> 0,
   result |-> "none", snap |-> NoFields]

\* Largest number of function runs in one behaviour
MaxRuns == 2

RunIds == 1..MaxRuns

\* The files context.ts reads: `${name}.md` of the context directory
ContextNames == {"company-profile", "voice-guidelines", "product-overview", "differentiators"}

\* The context directory as the repository ships it
ContextDir ==
  [name \in ContextNames |->
     IF name \in {"company-profile", "voice-guidelines"} THEN Str(<<name, ".md">>)
     ELSE Undefined]

NoCall == [op |-> "none", names |-> {}, value |-> <<>>, disk |-> <<>>, n |-> 0]

\* A process that has just started: nothing cached, no artifact active
ContextAtStart ==
  /\ files = ContextDir
  /\ contextCache = [name \in ContextNames |-> Undefined]
  /\ artifacts = <<>>
  /\ returned = NoCall

\* The keyword ideation base before any record is added
KeywordBaseAtStart ==
  /\ keywordBank = <<>>
  /\ ideas = <<>>
  /\ jobs = <<>>

\* The server with one request on its way, no event sent yet
InitGateway ==
  /\ \/ /\ env \in Envs
        /\ store = DefaultStore
        /\ inbox \in GatewayRequests
     \/ /\ env = Secret
        /\ store \in WideStores
        /\ inbox \in EnrichRequests
  /\ last = NoResponse
  /\ queue = <<>>
  /\ runs = [r \in RunIds |-> NoRun]
  /\ arrived = 1
  /\ finalizeImpl = "feedback-fork"
  /\ llmMode = "up"
  /\ lastWrite = {}
  /\ ContextAtStart
  /\ KeywordBaseAtStart

NextGateway ==
  \/ authenticateWebhook
  \/ PostStart
  \/ PostOutlineApproved
  \/ PostDraftApproved
  \/ PostBatch
  \/ PostKeyword

SpecGateway == InitGateway /\ [][NextGateway]_vars

----------------------------------------------------------------------------
(* Inngest runtime: dispatch of events to functions, step retries *)

\* The functions index.ts serves, by the event each one is triggered by
FunctionOf(name) ==
  CASE name = "content/pipeline.start" -> "generateOutline"
    [] name = "content/outline.approved" -> "generateDraft"
    [] name = "content/draft.approved" -> "finalizeContent"
    [] name = "content/batch.trigger" -> "batchTrigger"
    [] name = "keyword/research.start" -> "keywordResearch"
    [] name = "keyword/gap-analysis.start" -> "gapAnalysis"
    [] name = "keyword/generate-title" -> "generateTitles"
    [] name = "keyword/promote" -> "promoteToPipeline"
    [] OTHER -> "none"

\* Mutant of Retries: five retries for every function
RetriesFive(fn) == 5

\* The `retries` option of each createFunction
Retries(fn) ==
  CASE fn \in {"batchTrigger", "generateTitles", "gapAnalysis"} -> 2
    [] fn = "promoteToPipeline" -> 4
    [] OTHER -> 3

\* const hasFeedback = feedback && feedback.trim().length > 0
HasFeedback(feedback) == Truthy(feedback) /\ Len(Trim(feedback.v)) > 0

\* Mutant of FirstStep: batchTrigger does not look at the action
FirstStepAnyAction(fn, data) ==
  CASE fn = "generateOutline" -> "store-run-id"
    [] fn = "generateDraft" -> "update-drafting-status"
    [] fn = "finalizeContent" ->
         IF finalizeImpl = "feedback-fork" /\ HasFeedback(data.feedback)
         THEN "assemble-context" ELSE "finalize"
    [] fn \in {"generateTitles", "promoteToPipeline"} -> "get-idea"
    [] fn = "keywordResearch" -> "create-research-job"
    [] fn = "gapAnalysis" -> "load-existing"
    [] OTHER -> "prepare-batch-events"

\* The first step.run a function body reaches
FirstStep(fn, data) ==
  CASE fn = "generateOutline" -> "store-run-id"
    [] fn = "generateDraft" -> "update-drafting-status"
    [] fn = "finalizeContent" ->
         IF finalizeImpl = "feedback-fork" /\ HasFeedback(data.feedback)
         THEN "assemble-context" ELSE "finalize"
    [] fn \in {"generateTitles", "promoteToPipeline"} -> "get-idea"
    [] fn = "keywordResearch" -> "create-research-job"
    [] fn = "gapAnalysis" -> "load-existing"
    [] OTHER -> IF data.action = Str(<<"start">>) THEN "prepare-batch-events" ELSE "done"

FreeRuns == {r \in DOMAIN runs : runs[r].fn = "none"}

\* Inngest starts a run of the function subscribed to the oldest pending event
\* (an event no served function listens to is dropped)
Dispatch ==
  /\ queue # <<>>
  /\ LET e == Head(queue)
         fn == FunctionOf(e.name)
     IN /\ fn # "none" => FreeRuns # {}
        /\ runs' = IF fn = "none" THEN runs
                   ELSE LET r == CHOOSE x \in FreeRuns : \A y \in FreeRuns : x <= y IN
                        [runs EXCEPT ![r] =
                           [NoRun EXCEPT !.fn = fn, !.ev = e.data,
                                         !.pc = FirstStep(fn, e.data),
                                         !.result = IF FirstStep(fn, e.data) = "done"
                                                    THEN "unknown-action" ELSE "none"]]
  /\ queue' = Tail(queue)
  /\ UNCHANGED <<env, store, inbox, last, arrived, finalizeImpl, llmMode, lastWrite,
               ContextVars, KeywordVars>>

\* A step returned: the run moves to step pc with the given locals
Goto(r, pc, locals) ==
  runs' = [runs EXCEPT ![r] =
             [f \in DOMAIN @ |-> IF f = "pc" THEN pc
                                  ELSE IF f = "attempt" THEN 0
                                  ELSE IF f \in DOMAIN locals THEN locals[f] ELSE @[f]]]

\* A step threw: Inngest retries it, and fails the run once the retries are used up
Fail(r, locals) ==
  runs' = [runs EXCEPT ![r] =
             [f \in DOMAIN @ |->
                IF f \in DOMAIN locals THEN locals[f]
                ELSE IF @.attempt >= Retries(@.fn)
                THEN (IF f = "pc" THEN "failed" ELSE IF f = "result" THEN "failed" ELSE @[f])
                ELSE (IF f = "attempt" THEN @.attempt + 1 ELSE @[f])]]

NoLocals == [none |-> 0]

----------------------------------------------------------------------------
(* Record accessor: writes *)

\* The fields of a record after contentTable.update(id, changes)
Merge(fields, changes) ==
  [f \in DOMAIN fields |-> IF f \in DOMAIN changes THEN changes[f] ELSE fields[f]]

WriteOf(id, changes, by) ==
  [id |-> id, old |-> store[id].Status, new |-> Merge(store[id], changes).Status,
   by |-> by, fields |-> DOMAIN changes]

\* Mutant of updateRecord: a destructive update (contentTable.replace), which
\* clears the text fields it is not given
updateRecordReplacing(id, changes, by) ==
  /\ store' = [store EXCEPT ![id.v[1]] =
                 [f \in DOMAIN @ |-> IF f \in DOMAIN changes THEN changes[f]
                                     ELSE IF f \in {"Outline", "Draft", "FinalContent"}
                                     THEN Undefined ELSE @[f]]]
  /\ lastWrite' = {WriteOf(id.v[1], changes, by)}

\* Mutant of updateRecord: a field that already holds text is not overwritten
updateRecordFirstWins(id, changes, by) ==
  /\ store' = [store EXCEPT ![id.v[1]] =
                 [f \in DOMAIN @ |->
                    IF f \in DOMAIN changes /\ (f = "Status" \/ @[f] = Undefined)
                    THEN changes[f] ELSE @[f]]]
  /\ lastWrite' = {WriteOf(id.v[1], changes, by)}

\* updateRecord(recordId, fields): no check of the current Status, last writer wins
updateRecord(id, changes, by) ==
  /\ store' = [store EXCEPT ![id.v[1]] = Merge(@, changes)]
  /\ lastWrite' = {WriteOf(id.v[1], changes, by)}

\* Airtable's limit of records per update call
ChunkSize == 10

\* Mutant of ChunkOf: slices of eleven ids
ChunkOfEleven(ids, k) ==
  SubSeq(ids, k * ChunkSize + 1,
         IF (k + 1) * ChunkSize < Len(ids) THEN (k + 1) * ChunkSize + 1 ELSE Len(ids))

\* The ids of the k-th call (k = 0, 1, ...) of batchUpdateStatus
ChunkOf(ids, k) ==
  SubSeq(ids, k * ChunkSize + 1,
         IF (k + 1) * ChunkSize < Len(ids) THEN (k + 1) * ChunkSize ELSE Len(ids))

Range(seq) == {seq[i] : i \in 1..Len(seq)}

----------------------------------------------------------------------------
(* Collaborators: prompt store, LLM, Industries and Personas tables *)

ContentTypes == {"blog", "guide"}

\* The templates kept in Langfuse: outline-, draft- and finalize- of each content type
PromptNames ==
  {<<stage, type>> : stage \in {"outline-", "draft-", "finalize-"}, type \in ContentTypes}

\* `${x}` in a template literal
ToStr(x) == IF x.t = "string" THEN x.v ELSE <<x.t>>

PromptName(stage, contentType) == <<stage>> \o ToStr(contentType)

\* The Claude API answers every call, fails the first attempt of each step,
\* or fails every call
LLMModes == {"up", "flaky", "down"}

\* anthropic.messages.create returns on this attempt of the step (else throws)
LLMAnswers(attempt) == llmMode = "up" \/ (llmMode = "flaky" /\ attempt > 0)

\* The text Claude returns to run r
LLMText(r) == Str(<<"llm-text-", ToString(r)>>)

IndustryIds == {"i1", "i2"}

PersonaIds == {"p1"}

\* getIndustry / getPersona throw for an id their table lacks
LinkFound(ref, table) == ref.t = "string" /\ Len(ref.v) = 1 /\ ref.v[1] \in table

\* context.industry?.name || fallback
NameOrElse(entity, fallback) ==
  IF entity = Null THEN Str(<<fallback>>) ELSE Str(entity.v \o <<"-name">>)

----------------------------------------------------------------------------
(* lib/context.ts: the loader of the static context files, and the active
   rows of the Context Artifacts table *)

\* Mutant of getContext: the file is read on every call
getContextUncached(cache, name) ==
  IF files[name] = Undefined THEN Str(<<>>) ELSE files[name]

\* getContext(name) under a cache: the cached content, else the file's
\* content, else "" for a file that does not exist
getContext(cache, name) ==
  IF cache[name] # Undefined THEN cache[name]
  ELSE IF files[name] = Undefined THEN Str(<<>>) ELSE files[name]

\* Mutant of CacheAfter: the "" returned for a missing file is kept as well
CacheAfterMissingKept(cache, names) ==
  [name \in ContextNames |->
     IF name \in names /\ cache[name] = Undefined
     THEN (IF files[name] = Undefined THEN Str(<<>>) ELSE files[name])
     ELSE cache[name]]

\* The cache after getContext of each of the names: a file that exists is
\* kept under its name the first time it is read
CacheAfter(cache, names) ==
  [name \in ContextNames |->
     IF name \in names /\ cache[name] = Undefined THEN files[name] ELSE cache[name]]

\* getContextBundle(names): the object it returns
getContextBundle(cache, names) == [name \in names |-> getContext(cache, name)]

\* What a call of the loader leaves alone
OthersButContext ==
  <<env, store, inbox, last, queue, runs, arrived, finalizeImpl, llmMode, lastWrite,
    artifacts, KeywordVars>>

\* A call of getContext or getContextBundle from outside the stage functions:
\* `returned` keeps what the call returned, next to what the files held then
CallLoader(op, names) ==
  /\ returned' = [op |-> op, names |-> names,
                  value |-> getContextBundle(contextCache, names),
                  disk |-> [name \in names |-> files[name]],
                  n |-> 1 - returned.n]
  /\ contextCache' = CacheAfter(contextCache, names)
  /\ UNCHANGED <<files, OthersButContext>>

CallGetContext(name) == CallLoader("getContext", {name})

CallGetContextBundle(names) == CallLoader("getContextBundle", names)

\* clearContextCache()
clearContextCache ==
  /\ contextCache' = [name \in ContextNames |-> Undefined]
  /\ UNCHANGED <<files, returned, OthersButContext>>

\* A developer writes, empties or deletes a file of the context directory
EditFile(name, content) ==
  /\ files[name] # content
  /\ files' = [files EXCEPT ![name] = content]
  /\ UNCHANGED <<contextCache, returned, OthersButContext>>

\* The keys of the object a stage's "assemble-context" step returns
ContextKeys == {"companyProfile", "voiceGuidelines", "productOverview", "differentiators",
                "caseStudies", "industry", "persona", "keywords"}

\* The file each key of the context object is read from
StaticFile ==
  [companyProfile |-> "company-profile", voiceGuidelines |-> "voice-guidelines",
   productOverview |-> "product-overview", differentiators |-> "differentiators"]

\* getActiveArtifacts(): the reduce keeps, under each Type, the Content of
\* the last active row of that Type (Undefined: the object lacks the key)
getActiveArtifacts ==
  [type \in ContextKeys |->
     IF \E i \in 1..Len(artifacts) : artifacts[i].type = type
     THEN LET i == CHOOSE i \in 1..Len(artifacts) :
                     /\ artifacts[i].type = type
                     /\ \A j \in (i + 1)..Len(artifacts) : artifacts[j].type # type
          IN artifacts[i].content
     ELSE Undefined]

\* Mutant of ContextObject: the artifacts are spread first, so that the
\* static files override them
ContextObjectStaticLast(linked) ==
  [k \in ContextKeys |->
     IF k \in DOMAIN linked THEN linked[k]
     ELSE IF k \in DOMAIN StaticFile THEN getContext(contextCache, StaticFile[k])
     ELSE getActiveArtifacts[k]]

\* The object literal of "assemble-context": the four static files, then
\* ...artifacts, then the keys written after the spread (industry, persona
\* and, in generate-outline and content-pipeline, keywords)
ContextObject(linked) ==
  [k \in ContextKeys |->
     IF k \in DOMAIN linked THEN linked[k]
     ELSE IF getActiveArtifacts[k] # Undefined THEN getActiveArtifacts[k]
     ELSE IF k \in DOMAIN StaticFile THEN getContext(contextCache, StaticFile[k])
     ELSE Undefined]

\* The variables a prompt takes from the context files
FromContextFiles(ctx) ==
  [EmptyObj EXCEPT !.companyProfile = ctx.companyProfile,
                   !.voiceGuidelines = ctx.voiceGuidelines,
                   !.productOverview = ctx.productOverview,
                   !.differentiators = ctx.differentiators]

----------------------------------------------------------------------------
(* generate-outline.ts *)

Others == <<env, inbox, last, arrived, finalizeImpl, llmMode, ContextVars, KeywordVars>>

\* What "assemble-context", which fills the cache of the loader, leaves alone
OthersButCache ==
  <<env, inbox, last, arrived, finalizeImpl, llmMode, files, artifacts, returned, KeywordVars>>

\* Mutant of StoreRunId: the run id is stored, the Status is not
StoreRunIdOnly(r) ==
  /\ runs[r].fn = "generateOutline" /\ runs[r].pc = "store-run-id"
  /\ IF RecordFound(runs[r].ev.recordId)
     THEN /\ updateRecord(runs[r].ev.recordId,
                          [RunID |-> Str(<<"run-", ToString(r)>>)], "generateOutline")
          /\ Goto(r, "get-record", NoLocals)
     ELSE /\ Fail(r, NoLocals)
          /\ UNCHANGED <<store, lastWrite>>
  /\ UNCHANGED <<queue, Others>>

\* step "store-run-id"
StoreRunId(r) ==
  /\ runs[r].fn = "generateOutline" /\ runs[r].pc = "store-run-id"
  /\ IF RecordFound(runs[r].ev.recordId)
     THEN /\ updateRecord(runs[r].ev.recordId,
                          [RunID |-> Str(<<"run-", ToString(r)>>), Status |-> "Generating"],
                          "generateOutline")
          /\ Goto(r, "get-record", NoLocals)
     ELSE /\ Fail(r, NoLocals)
          /\ UNCHANGED <<store, lastWrite>>
  /\ UNCHANGED <<queue, Others>>

\* step "get-record"
GetRecord(r) ==
  /\ runs[r].fn = "generateOutline" /\ runs[r].pc = "get-record"
  /\ IF RecordFound(runs[r].ev.recordId)
     THEN Goto(r, "assemble-context", [record |-> getRecord(runs[r].ev.recordId)])
     ELSE Fail(r, NoLocals)
  /\ UNCHANGED <<store, lastWrite, queue, Others>>

\* The linked entity a stage looks up: the event's id, else the fallback's
LinkRef(eventId, fallback) == IF Truthy(eventId) THEN eventId ELSE fallback

\* The industry, persona and keywords of the context a stage assembles
Context(industryRef, personaRef, keywords) ==
  [industry |-> IF Truthy(industryRef) THEN industryRef ELSE Null,
   persona |-> IF Truthy(personaRef) THEN personaRef ELSE Null,
   keywords |-> keywords]

\* The industry and persona of the context generate-draft and
\* finalize-content assemble
Linked(industryRef, personaRef) ==
  [industry |-> IF Truthy(industryRef) THEN industryRef ELSE Null,
   persona |-> IF Truthy(personaRef) THEN personaRef ELSE Null]

\* Both lookups of a context assembly succeed
LinksFound(industryRef, personaRef) ==
  /\ Truthy(industryRef) => LinkFound(industryRef, IndustryIds)
  /\ Truthy(personaRef) => LinkFound(personaRef, PersonaIds)

\* step "assemble-context" of generateOutline
OutlineAssembleContext(r) ==
  /\ runs[r].fn = "generateOutline" /\ runs[r].pc = "assemble-context"
  /\ LET ev == runs[r].ev
         record == runs[r].record
         industryRef == LinkRef(ev.industryId, FirstOf(record.Industry))
         personaRef == LinkRef(ev.personaId, FirstOf(record.Persona))
     IN IF LinksFound(industryRef, personaRef)
        THEN Goto(r, "generate-outline",
                  [ctx |-> ContextObject(
                             Context(industryRef, personaRef,
                                     OrElse(ev.keywords, OrElse(record.TargetKeywords, Str(<<>>)))))])
        ELSE Fail(r, NoLocals)
  /\ contextCache' = CacheAfter(contextCache, ContextNames)
  /\ UNCHANGED <<store, lastWrite, queue, OthersButCache>>

\* One getPrompt + generate call as a run records it
Call(name, variables) == [name |-> name, vars |-> variables]

\* The body of a generation step: getPrompt throws for a template Langfuse
\* lacks; generate returns Claude's text or throws
Generate(r, name, variables, next) ==
  IF name \notin PromptNames
  THEN Fail(r, NoLocals)
  ELSE IF LLMAnswers(runs[r].attempt)
  THEN Goto(r, next, [text |-> LLMText(r),
                      llm |-> Append(runs[r].llm, Call(name, variables))])
  ELSE Fail(r, [llm |-> Append(runs[r].llm, Call(name, variables))])

\* step "generate-outline"
GenerateOutlineStep(r) ==
  /\ runs[r].fn = "generateOutline" /\ runs[r].pc = "generate-outline"
  /\ LET ev == runs[r].ev
         record == runs[r].record
         ctx == runs[r].ctx
     IN Generate(r, PromptName("outline-", OrElse(ev.contentType, record.ContentType)),
                 [FromContextFiles(ctx) EXCEPT !.title = OrElse(ev.title, record.Title),
                                  !.industryName = NameOrElse(ctx.industry, "General"),
                                  !.personaName = NameOrElse(ctx.persona, "General audience"),
                                  !.keywords = ctx.keywords],
                 "update-outline")
  /\ UNCHANGED <<store, lastWrite, queue, Others>>

\* A function's last write: the run ends and keeps the record as it left it
Persist(r, changes, result) ==
  IF RecordFound(runs[r].ev.recordId)
  THEN /\ updateRecord(runs[r].ev.recordId, changes, runs[r].fn)
       /\ Goto(r, "done", [result |-> result,
                           snap |-> Merge(getRecord(runs[r].ev.recordId), changes)])
  ELSE /\ Fail(r, NoLocals)
       /\ UNCHANGED <<store, lastWrite>>

\* step "update-outline"
UpdateOutline(r) ==
  /\ runs[r].fn = "generateOutline" /\ runs[r].pc = "update-outline"
  /\ Persist(r, [Outline |-> runs[r].text, Status |-> "Outline Review"], "outline-ready")
  /\ UNCHANGED <<queue, Others>>

----------------------------------------------------------------------------
(* generate-draft.ts *)

\* Mutant of UpdateDraftingStatus: the step leaves the Status alone
UpdateDraftingStatusSkipped(r) ==
  /\ runs[r].fn = "generateDraft" /\ runs[r].pc = "update-drafting-status"
  /\ Goto(r, "assemble-context", NoLocals)
  /\ UNCHANGED <<store, lastWrite, queue, Others>>

\* step "update-drafting-status"
UpdateDraftingStatus(r) ==
  /\ runs[r].fn = "generateDraft" /\ runs[r].pc = "update-drafting-status"
  /\ IF RecordFound(runs[r].ev.recordId)
     THEN /\ updateRecord(runs[r].ev.recordId, [Status |-> "Drafting"], "generateDraft")
          /\ Goto(r, "assemble-context", NoLocals)
     ELSE /\ Fail(r, NoLocals)
          /\ UNCHANGED <<store, lastWrite>>
  /\ UNCHANGED <<queue, Others>>

\* step "assemble-context" of generateDraft and of finalizeContent
AssembleContext(r, next) ==
  LET ev == runs[r].ev IN
  IF LinksFound(ev.industryId, ev.personaId)
  THEN Goto(r, next, [ctx |-> ContextObject(Linked(ev.industryId, ev.personaId))])
  ELSE Fail(r, NoLocals)

DraftAssembleContext(r) ==
  /\ runs[r].fn = "generateDraft" /\ runs[r].pc = "assemble-context"
  /\ AssembleContext(r, "generate-draft")
  /\ contextCache' = CacheAfter(contextCache, ContextNames)
  /\ UNCHANGED <<store, lastWrite, queue, OthersButCache>>

\* Mutant of GenerateDraftStep: the feedback is passed on as it came
GenerateDraftStepRawFeedback(r) ==
  /\ runs[r].fn = "generateDraft" /\ runs[r].pc = "generate-draft"
  /\ LET ev == runs[r].ev
         ctx == runs[r].ctx
     IN Generate(r, PromptName("draft-", ev.contentType),
                 [FromContextFiles(ctx) EXCEPT !.title = ev.title,
                                  !.industryName = NameOrElse(ctx.industry, "General"),
                                  !.personaName = NameOrElse(ctx.persona, "General audience"),
                                  !.outline = ev.outline,
                                  !.feedback = ev.feedback,
                                  !.keywords = OrElse(ev.keywords, Str(<<>>))],
                 "update-draft")
  /\ UNCHANGED <<store, lastWrite, queue, Others>>

\* step "generate-draft"
GenerateDraftStep(r) ==
  /\ runs[r].fn = "generateDraft" /\ runs[r].pc = "generate-draft"
  /\ LET ev == runs[r].ev
         ctx == runs[r].ctx
     IN Generate(r, PromptName("draft-", ev.contentType),
                 [FromContextFiles(ctx) EXCEPT !.title = ev.title,
                                  !.industryName = NameOrElse(ctx.industry, "General"),
                                  !.personaName = NameOrElse(ctx.persona, "General audience"),
                                  !.outline = ev.outline,
                                  !.feedback = OrElse(ev.feedback, Str(<<>>)),
                                  !.keywords = OrElse(ev.keywords, Str(<<>>))],
                 "update-draft")
  /\ UNCHANGED <<store, lastWrite, queue, Others>>

\* step "update-draft"
UpdateDraft(r) ==
  /\ runs[r].fn = "generateDraft" /\ runs[r].pc = "update-draft"
  /\ Persist(r, [Draft |-> runs[r].text, Status |-> "Draft Review"], "draft-ready")
  /\ UNCHANGED <<queue, Others>>

----------------------------------------------------------------------------
(* finalize-content.ts: the revision that refines the draft when the event
   carries feedback ("feedback-fork") and the revision that only copies the
   draft ("copy-only") *)

FinalizeImpls == {"feedback-fork", "copy-only"}

FinalizeAssembleContext(r) ==
  /\ runs[r].fn = "finalizeContent" /\ runs[r].pc = "assemble-context"
  /\ AssembleContext(r, "generate-refined-content")
  /\ contextCache' = CacheAfter(contextCache, ContextNames)
  /\ UNCHANGED <<store, lastWrite, queue, OthersButCache>>

\* step "generate-refined-content"
GenerateRefinedContent(r) ==
  /\ runs[r].fn = "finalizeContent" /\ runs[r].pc = "generate-refined-content"
  /\ LET ev == runs[r].ev
         ctx == runs[r].ctx
     IN Generate(r, PromptName("finalize-", ev.contentType),
                 [FromContextFiles(ctx) EXCEPT !.title = ev.title,
                                  !.industryName = NameOrElse(ctx.industry, "General"),
                                  !.personaName = NameOrElse(ctx.persona, "General audience"),
                                  !.draft = ev.draft,
                                  !.feedback = OrElse(ev.feedback, Str(<<>>)),
                                  !.keywords = OrElse(ev.keywords, Str(<<>>))],
                 "finalize")
  /\ UNCHANGED <<store, lastWrite, queue, Others>>

\* Mutant of FinalContentOf: the draft is appended to the Final Content
\* the record already holds
FinalContentOfAppended(run) ==
  LET current == store[run.ev.recordId.v[1]].FinalContent IN
  IF current.t = "string" THEN Str(current.v \o run.ev.draft.v) ELSE run.ev.draft

\* What step "finalize" stores as Final Content
FinalContentOf(run) ==
  IF finalizeImpl = "feedback-fork" /\ HasFeedback(run.ev.feedback)
  THEN run.text ELSE run.ev.draft

\* step "finalize"
Finalize(r) ==
  /\ runs[r].fn = "finalizeContent" /\ runs[r].pc = "finalize"
  /\ Persist(r, [FinalContent |-> FinalContentOf(runs[r]), Status |-> "Complete"], "complete")
  /\ UNCHANGED <<queue, Others>>

----------------------------------------------------------------------------
(* batch-trigger.ts *)

\* The content/pipeline.start event prepared for one record of the batch
BatchStartEvent(id) ==
  Event("content/pipeline.start",
        [EmptyObj EXCEPT !.recordId = Str(<<id>>),
                         !.title = store[id].Title,
                         !.industryId = FirstOf(store[id].Industry),
                         !.personaId = FirstOf(store[id].Persona),
                         !.contentType = store[id].ContentType,
                         !.keywords = store[id].TargetKeywords])

\* Mutant of PrepareBatchEvents: a record that cannot be fetched is skipped
PrepareBatchEventsIsolated(r) ==
  /\ runs[r].fn = "batchTrigger" /\ runs[r].pc = "prepare-batch-events"
  /\ LET ids == SelectSeq(runs[r].ev.recordIds.v, LAMBDA id : id \in DOMAIN store) IN
     Goto(r, "send-batch-events",
          [events |-> [i \in 1..Len(ids) |-> BatchStartEvent(ids[i])]])
  /\ UNCHANGED <<store, lastWrite, queue, Others>>

\* step "prepare-batch-events": getRecord of every id, in order
PrepareBatchEvents(r) ==
  /\ runs[r].fn = "batchTrigger" /\ runs[r].pc = "prepare-batch-events"
  /\ LET ids == runs[r].ev.recordIds.v IN
     IF Range(ids) \subseteq DOMAIN store
     THEN Goto(r, "send-batch-events",
               [events |-> [i \in 1..Len(ids) |-> BatchStartEvent(ids[i])]])
     ELSE Fail(r, NoLocals)
  /\ UNCHANGED <<store, lastWrite, queue, Others>>

\* step "send-batch-events"
SendBatchEvents(r) ==
  /\ runs[r].fn = "batchTrigger" /\ runs[r].pc = "send-batch-events"
  /\ queue' = queue \o runs[r].events
  /\ Goto(r, "update-statuses", [chunk |-> 0])
  /\ UNCHANGED <<store, lastWrite, Others>>

\* step "update-statuses": one contentTable.update call of batchUpdateStatus
UpdateStatuses(r) ==
  /\ runs[r].fn = "batchTrigger" /\ runs[r].pc = "update-statuses"
  /\ LET ids == runs[r].ev.recordIds.v
         k == runs[r].chunk
         batch == Range(ChunkOf(ids, k))
     IN /\ store' = [id \in DOMAIN store |->
                       IF id \in batch THEN Merge(store[id], [Status |-> "Generating"])
                       ELSE store[id]]
        /\ lastWrite' = {WriteOf(id, [Status |-> "Generating"], "batchTrigger") : id \in batch}
        /\ IF (k + 1) * ChunkSize >= Len(ids)
           THEN Goto(r, "done", [result |-> "batch-started", chunk |-> k + 1])
           ELSE runs' = [runs EXCEPT ![r].chunk = k + 1]
  /\ UNCHANGED <<queue, Others>>

----------------------------------------------------------------------------
(* Airtable side: the automations of airtable-scripts.md, which send a
   webhook when a person moves a record's Status to a trigger value *)

\* Largest number of webhook requests delivered in one behaviour
MaxRequests == 2

CanSend == inbox = NoRequest /\ arrived < MaxRequests

Send(req) ==
  /\ inbox' = req
  /\ arrived' = arrived + 1
  /\ UNCHANGED <<env, last, queue, runs, finalizeImpl, llmMode, lastWrite,
               ContextVars, KeywordVars>>

\* Script 1: Status becomes Ready
MarkReady(id) ==
  /\ CanSend
  /\ store[id].Status = "Draft"
  /\ store' = [store EXCEPT ![id].Status = "Ready"]
  /\ Send(Req("start", Secret,
              [EmptyObj EXCEPT !.recordId = Str(<<id>>),
                               !.title = store[id].Title,
                               !.industryId = FirstOf(store[id].Industry),
                               !.personaId = FirstOf(store[id].Persona),
                               !.contentType = store[id].ContentType,
                               !.keywords = store[id].TargetKeywords]))

\* What a reviewer leaves in a feedback field
FeedbackValues == {Undefined, Str(<<" ">>), Str(<<"fix">>)}

\* Script 2: Status becomes Outline Approved
ApproveOutline(id, feedback) ==
  /\ CanSend
  /\ store[id].Status = "Outline Review"
  /\ store' = [store EXCEPT ![id].Status = "Outline Approved",
                            ![id].OutlineFeedback = feedback]
  /\ Send(Req("outline-approved", Secret,
              [EmptyObj EXCEPT !.recordId = Str(<<id>>),
                               !.outline = OrElse(store[id].Outline, Str(<<>>)),
                               !.feedback = OrElse(feedback, Str(<<>>))]))

\* The approval sent by a client other than Script 2 (curl, a test
\* harness), which leaves the optional feedback out of the body
ApproveOutlineDirect(id) ==
  /\ CanSend
  /\ store[id].Status = "Outline Review"
  /\ store' = [store EXCEPT ![id].Status = "Outline Approved"]
  /\ Send(Req("outline-approved", Secret,
              [EmptyObj EXCEPT !.recordId = Str(<<id>>),
                               !.outline = OrElse(store[id].Outline, Str(<<>>))]))

\* Script 3: Status becomes Draft Approved
ApproveDraft(id, feedback) ==
  /\ CanSend
  /\ store[id].Status = "Draft Review"
  /\ store' = [store EXCEPT ![id].Status = "Draft Approved",
                            ![id].DraftFeedback = feedback]
  /\ Send(Req("draft-approved", Secret,
              [EmptyObj EXCEPT !.recordId = Str(<<id>>),
                               !.draft = OrElse(store[id].Draft, Str(<<>>)),
                               !.feedback = OrElse(feedback, Str(<<>>))]))

\* A webhook is delivered a second time
Redeliver ==
  /\ CanSend
  /\ last.route # "none"
  /\ Send(Req(last.route, last.secret, last.body))
  /\ UNCHANGED store

\* The records of the table a batch is drawn from
BatchRecIds ==
  <<"rec1", "rec2", "rec3", "rec4", "rec5", "rec6", "rec7", "rec8", "rec9", "rec10",
    "rec11", "rec12">>

\* Record lists sent to the batch endpoint: one id, two, twelve (more than
\* one chunk, not in table order), and a list with an id the table lacks
BatchLists ==
  {<<"rec1">>, <<"rec1", "rec2">>, <<"rec2", "recX">>,
   [i \in 1..Len(BatchRecIds) |-> BatchRecIds[Len(BatchRecIds) + 1 - i]]}

\* A manual call of the batch endpoint
BatchCall(ids, action) ==
  /\ CanSend
  /\ Send(Req("batch", Secret,
              [EmptyObj EXCEPT !.recordIds = Arr(ids), !.action = Str(<<action>>)]))
  /\ UNCHANGED store

----------------------------------------------------------------------------
(* The pipeline: automations, gateway, Inngest and the stage functions *)

InReview(fields, status) ==
  [fields EXCEPT !.Status = status,
                 !.Outline = Str(<<"O">>),
                 !.Draft = IF status = "Draft Review" THEN Str(<<"D">>) ELSE Undefined]

\* rec1 is new, or has its outline or its draft under review; rec2 is new
StageStores ==
  {[DefaultStore EXCEPT !["rec1"].Status = "Draft", !["rec2"].Status = "Draft"]}
  \cup {[DefaultStore EXCEPT !["rec1"] = InReview(@, status), !["rec2"].Status = "Draft"] :
          status \in {"Outline Review", "Draft Review"}}

InitStages ==
  /\ env = Secret
  /\ store \in StageStores
  /\ inbox = NoRequest
  /\ last = NoResponse
  /\ queue = <<>>
  /\ runs = [r \in RunIds |-> NoRun]
  /\ arrived = 0
  /\ finalizeImpl \in FinalizeImpls
  /\ llmMode \in LLMModes
  /\ lastWrite = {}
  /\ ContextAtStart
  /\ KeywordBaseAtStart

NextStages ==
  \/ \E id \in RecIds : MarkReady(id)
  \/ \E id \in RecIds, feedback \in FeedbackValues : ApproveOutline(id, feedback)
  \/ \E id \in RecIds, feedback \in FeedbackValues : ApproveDraft(id, feedback)
  \/ \E id \in RecIds : ApproveOutlineDirect(id)
  \/ Redeliver
  \/ PostStart
  \/ PostOutlineApproved
  \/ PostDraftApproved
  \/ Dispatch
  \/ \E r \in RunIds : StoreRunId(r)
  \/ \E r \in RunIds : GetRecord(r)
  \/ \E r \in RunIds : OutlineAssembleContext(r)
  \/ \E r \in RunIds : GenerateOutlineStep(r)
  \/ \E r \in RunIds : UpdateOutline(r)
  \/ \E r \in RunIds : UpdateDraftingStatus(r)
  \/ \E r \in RunIds : DraftAssembleContext(r)
  \/ \E r \in RunIds : GenerateDraftStep(r)
  \/ \E r \in RunIds : UpdateDraft(r)
  \/ \E r \in RunIds : FinalizeAssembleContext(r)
  \/ \E r \in RunIds : GenerateRefinedContent(r)
  \/ \E r \in RunIds : Finalize(r)

SpecStages == InitStages /\ [][NextStages]_vars

----------------------------------------------------------------------------
(* Batch runs: the batch endpoint, the batch function and the outline runs
   it fans out to *)

\* Twelve records that differ in title, links and keywords; rec2 is
\* already under review
BatchStore ==
  [id \in Range(BatchRecIds) |->
     Fields(Str(<<"title of ", id>>), Str(<<"blog">>),
            IF id \in {"rec1", "rec3", "rec12"} THEN Arr(<<"i1", "i2">>) ELSE Undefined,
            IF id \in {"rec1", "rec2", "rec11"} THEN Arr(<<"p1">>) ELSE Undefined,
            IF id \in {"rec1", "rec10"} THEN Str(<<"k of ", id>>) ELSE Undefined,
            IF id = "rec2" THEN "Outline Review" ELSE "Ready")]

InitBatch ==
  /\ env = Secret
  /\ store = BatchStore
  /\ inbox = NoRequest
  /\ last = NoResponse
  /\ queue = <<>>
  /\ runs = [r \in RunIds |-> NoRun]
  /\ arrived = 0
  /\ finalizeImpl = "feedback-fork"
  /\ llmMode = "up"
  /\ lastWrite = {}
  /\ ContextAtStart
  /\ KeywordBaseAtStart

NextBatch ==
  \/ \E ids \in BatchLists, action \in {"start", "continue"} : BatchCall(ids, action)
  \/ PostBatch
  \/ Dispatch
  \/ \E r \in RunIds : PrepareBatchEvents(r)
  \/ \E r \in RunIds : SendBatchEvents(r)
  \/ \E r \in RunIds : UpdateStatuses(r)
  \/ \E r \in RunIds : StoreRunId(r)
  \/ \E r \in RunIds : GetRecord(r)
  \/ \E r \in RunIds : OutlineAssembleContext(r)
  \/ \E r \in RunIds : GenerateOutlineStep(r)
  \/ \E r \in RunIds : UpdateOutline(r)

SpecBatch == InitBatch /\ [][NextBatch]_vars

----------------------------------------------------------------------------
(* One record taken through the three stage functions, every collaborator
   answering: the start webhook of Script 1 is on its way, the reviewer
   approves the outline and then the draft *)

\* The functions a record passes through, one run each
StageFunctions == <<"generateOutline", "generateDraft", "finalizeContent">>

\* The request Script 1 sends for a record
StartRequest(id, fields) ==
  Req("start", Secret,
      [EmptyObj EXCEPT !.recordId = Str(<<id>>),
                       !.title = fields.Title,
                       !.industryId = FirstOf(fields.Industry),
                       !.personaId = FirstOf(fields.Persona),
                       !.contentType = fields.ContentType,
                       !.keywords = fields.TargetKeywords])

\* rec1 has just been marked Ready
ReadyStores ==
  {[DefaultStore EXCEPT !["rec1"] = Fields(Str(<<"X">>), Str(<<type>>), i, p, k, "Ready"),
                        !["rec2"].Status = "Draft"] :
     type \in ContentTypes, i \in {Undefined, Arr(<<"i1", "i2">>)},
     p \in {Undefined, Arr(<<"p1">>)}, k \in {Undefined, Str(<<"k">>)}}

\* Feedback a reviewer leaves when there is nothing to change
BlankFeedback == {Undefined, Str(<<" ">>)}

InitEndToEnd ==
  /\ env = Secret
  /\ store \in ReadyStores
  /\ inbox = StartRequest("rec1", store["rec1"])
  /\ last = NoResponse
  /\ queue = <<>>
  /\ runs = [r \in DOMAIN StageFunctions |-> NoRun]
  /\ arrived = 0
  /\ finalizeImpl \in FinalizeImpls
  /\ llmMode = "up"
  /\ lastWrite = {}
  /\ ContextAtStart
  /\ KeywordBaseAtStart

NextEndToEnd ==
  \/ \E feedback \in FeedbackValues : ApproveOutline("rec1", feedback)
  \/ \E feedback \in BlankFeedback : ApproveDraft("rec1", feedback)
  \/ PostStart
  \/ PostOutlineApproved
  \/ PostDraftApproved
  \/ Dispatch
  \/ \E r \in DOMAIN runs : StoreRunId(r)
  \/ \E r \in DOMAIN runs : GetRecord(r)
  \/ \E r \in DOMAIN runs : OutlineAssembleContext(r)
  \/ \E r \in DOMAIN runs : GenerateOutlineStep(r)
  \/ \E r \in DOMAIN runs : UpdateOutline(r)
  \/ \E r \in DOMAIN runs : UpdateDraftingStatus(r)
  \/ \E r \in DOMAIN runs : DraftAssembleContext(r)
  \/ \E r \in DOMAIN runs : GenerateDraftStep(r)
  \/ \E r \in DOMAIN runs : UpdateDraft(r)
  \/ \E r \in DOMAIN runs : Finalize(r)

\* Requests are handled, events dispatched, steps run, and the reviewer
\* eventually approves what is put before them
SpecEndToEnd == InitEndToEnd /\ [][NextEndToEnd]_vars /\ WF_vars(NextEndToEnd)

----------------------------------------------------------------------------
(* One record taken through the three stage functions with collaborators
   that may fail: the LLM in any mode, and Airtable applying an update whose
   answer never reaches the step, so that Inngest retries the step *)

\* updateRecord threw although Airtable applied the update
WriteUnacknowledged(r, fn, pc, changes) ==
  /\ runs[r].fn = fn /\ runs[r].pc = pc
  /\ RecordFound(runs[r].ev.recordId)
  /\ updateRecord(runs[r].ev.recordId, changes, fn)
  /\ Fail(r, NoLocals)
  /\ UNCHANGED <<queue, Others>>

\* step "store-run-id", the answer to its update lost
StoreRunIdUnacknowledged(r) ==
  /\ runs[r].pc = "store-run-id"
  /\ WriteUnacknowledged(r, "generateOutline", "store-run-id",
                         [RunID |-> Str(<<"run-", ToString(r)>>), Status |-> "Generating"])

\* step "update-drafting-status", the answer to its update lost
UpdateDraftingStatusUnacknowledged(r) ==
  /\ runs[r].pc = "update-drafting-status"
  /\ WriteUnacknowledged(r, "generateDraft", "update-drafting-status", [Status |-> "Drafting"])

InitRetry ==
  /\ env = Secret
  /\ store \in {t \in ReadyStores : t["rec1"].TargetKeywords = Undefined}
  /\ inbox = StartRequest("rec1", store["rec1"])
  /\ last = NoResponse
  /\ queue = <<>>
  /\ runs = [r \in DOMAIN StageFunctions |-> NoRun]
  /\ arrived = 0
  /\ finalizeImpl \in FinalizeImpls
  /\ llmMode \in LLMModes
  /\ lastWrite = {}
  /\ ContextAtStart
  /\ KeywordBaseAtStart

\* The steps Inngest runs
StepRetry(r) ==
  \/ StoreRunId(r)
  \/ StoreRunIdUnacknowledged(r)
  \/ GetRecord(r)
  \/ OutlineAssembleContext(r)
  \/ GenerateOutlineStep(r)
  \/ UpdateOutline(r)
  \/ UpdateDraftingStatus(r)
  \/ UpdateDraftingStatusUnacknowledged(r)
  \/ DraftAssembleContext(r)
  \/ GenerateDraftStep(r)
  \/ UpdateDraft(r)
  \/ FinalizeAssembleContext(r)
  \/ GenerateRefinedContent(r)
  \/ Finalize(r)

NextRetry ==
  \/ \E feedback \in FeedbackValues : ApproveOutline("rec1", feedback)
  \/ \E feedback \in FeedbackValues : ApproveDraft("rec1", feedback)
  \/ PostStart
  \/ PostOutlineApproved
  \/ PostDraftApproved
  \/ Dispatch
  \/ \E r \in DOMAIN StageFunctions : StepRetry(r)

\* Inngest goes on running the steps of a run that has not ended
SpecRetry ==
  InitRetry /\ [][NextRetry]_vars /\ \A r \in DOMAIN StageFunctions : WF_vars(StepRetry(r))

----------------------------------------------------------------------------
(* content-pipeline.ts: the deprecated function that runs the whole pipeline
   in one run and waits for the approval events in between. A run keeps the
   approval events it received in `events`. *)

\* The event each step.waitForEvent waits for
WaitsFor(pc) ==
  CASE pc = "wait-outline-approval" -> "content/outline.approved"
    [] pc = "wait-draft-approval" -> "content/draft.approved"
    [] OTHER -> "none"

\* The step a run resumes at when its wait is over
AfterWait(pc) == IF pc = "wait-outline-approval" THEN "update-drafting-status" ELSE "finalize"

\* Mutant of Matching: no match expression, any waiting run is resumed
MatchingAnyRecord(e) ==
  {r \in DOMAIN runs : /\ runs[r].fn = "contentPipeline"
                       /\ WaitsFor(runs[r].pc) = e.name}

\* match: "data.recordId": the waiting runs an event resumes
Matching(e) ==
  {r \in DOMAIN runs : /\ runs[r].fn = "contentPipeline"
                       /\ WaitsFor(runs[r].pc) = e.name
                       /\ runs[r].ev.recordId = e.data.recordId}

\* Inngest with contentPipeline served: a start event starts a run, an
\* approval event resumes the runs waiting for it and is otherwise dropped
DispatchPipeline ==
  /\ queue # <<>>
  /\ LET e == Head(queue) IN
     IF e.name = "content/pipeline.start"
     THEN /\ FreeRuns # {}
          /\ LET r == CHOOSE x \in FreeRuns : \A y \in FreeRuns : x <= y IN
             runs' = [runs EXCEPT ![r] = [NoRun EXCEPT !.fn = "contentPipeline", !.ev = e.data,
                                                        !.pc = "store-run-id"]]
     ELSE runs' = [r \in DOMAIN runs |->
                     IF r \in Matching(e)
                     THEN [runs[r] EXCEPT !.pc = AfterWait(@), !.attempt = 0,
                                          !.events = Append(@, e)]
                     ELSE runs[r]]
  /\ queue' = Tail(queue)
  /\ UNCHANGED <<env, store, inbox, last, arrived, finalizeImpl, llmMode, lastWrite,
               ContextVars, KeywordVars>>

\* A step of contentPipeline that only writes to the record
PipelineWrite(r, pc, changes, next) ==
  /\ runs[r].fn = "contentPipeline" /\ runs[r].pc = pc
  /\ IF RecordFound(runs[r].ev.recordId)
     THEN /\ updateRecord(runs[r].ev.recordId, changes, "contentPipeline")
          /\ Goto(r, next, [snap |-> Merge(getRecord(runs[r].ev.recordId), changes)])
     ELSE /\ Fail(r, NoLocals)
          /\ UNCHANGED <<store, lastWrite>>
  /\ UNCHANGED <<queue, Others>>

\* step "store-run-id"
PipelineStoreRunId(r) ==
  /\ runs[r].pc = "store-run-id"
  /\ PipelineWrite(r, "store-run-id",
                   [RunID |-> Str(<<"run-", ToString(r)>>), Status |-> "Generating"],
                   "assemble-context")

\* step "assemble-context"
PipelineAssembleContext(r) ==
  /\ runs[r].fn = "contentPipeline" /\ runs[r].pc = "assemble-context"
  /\ LET ev == runs[r].ev IN
     IF LinksFound(ev.industryId, ev.personaId)
     THEN Goto(r, "generate-outline",
               [ctx |-> ContextObject(
                          Context(ev.industryId, ev.personaId, OrElse(ev.keywords, Str(<<>>))))])
     ELSE Fail(r, NoLocals)
  /\ contextCache' = CacheAfter(contextCache, ContextNames)
  /\ UNCHANGED <<store, lastWrite, queue, OthersButCache>>

\* step "generate-outline"
PipelineGenerateOutline(r) ==
  /\ runs[r].fn = "contentPipeline" /\ runs[r].pc = "generate-outline"
  /\ LET ev == runs[r].ev
         ctx == runs[r].ctx
     IN Generate(r, PromptName("outline-", ev.contentType),
                 [FromContextFiles(ctx) EXCEPT !.title = ev.title,
                                  !.industryName = NameOrElse(ctx.industry, "General"),
                                  !.personaName = NameOrElse(ctx.persona, "General audience"),
                                  !.keywords = ctx.keywords],
                 "update-outline")
  /\ UNCHANGED <<store, lastWrite, queue, Others>>

\* step "update-outline", then step.waitForEvent("wait-outline-approval")
PipelineUpdateOutline(r) ==
  /\ runs[r].pc = "update-outline"
  /\ PipelineWrite(r, "update-outline",
                   [Outline |-> runs[r].text, Status |-> "Outline Review"],
                   "wait-outline-approval")

\* Mutant of PipelineTimeout: the timed-out run throws and leaves the record
PipelineTimeoutRaises(r) ==
  /\ runs[r].fn = "contentPipeline" /\ WaitsFor(runs[r].pc) # "none"
  /\ Goto(r, "failed", [result |-> "failed"])
  /\ UNCHANGED <<store, lastWrite, queue, Others>>

\* The 30 days of a wait pass with no matching event: waitForEvent returns
\* null, the run writes Status Error and returns {status: "timeout", stage}
PipelineTimeout(r) ==
  /\ runs[r].fn = "contentPipeline" /\ WaitsFor(runs[r].pc) # "none"
  /\ updateRecord(runs[r].ev.recordId, [Status |-> "Error"], "contentPipeline")
  /\ Goto(r, "done",
          [result |-> IF runs[r].pc = "wait-outline-approval"
                      THEN "timeout-outline" ELSE "timeout-draft",
           snap |-> Merge(getRecord(runs[r].ev.recordId), [Status |-> "Error"])])
  /\ UNCHANGED <<queue, Others>>

\* step "update-drafting-status"
PipelineUpdateDraftingStatus(r) ==
  /\ runs[r].pc = "update-drafting-status"
  /\ PipelineWrite(r, "update-drafting-status", [Status |-> "Drafting"], "generate-draft")

\* step "generate-draft": outline and feedback of the approval event, the
\* rest from the start event and the context assembled at the start
PipelineGenerateDraft(r) ==
  /\ runs[r].fn = "contentPipeline" /\ runs[r].pc = "generate-draft"
  /\ LET ev == runs[r].ev
         ctx == runs[r].ctx
         outlineApproval == runs[r].events[1]
     IN Generate(r, PromptName("draft-", ev.contentType),
                 [FromContextFiles(ctx) EXCEPT !.title = ev.title,
                                  !.industryName = NameOrElse(ctx.industry, "General"),
                                  !.personaName = NameOrElse(ctx.persona, "General audience"),
                                  !.outline = outlineApproval.data.outline,
                                  !.feedback = OrElse(outlineApproval.data.feedback, Str(<<>>)),
                                  !.keywords = ctx.keywords],
                 "update-draft")
  /\ UNCHANGED <<store, lastWrite, queue, Others>>

\* step "update-draft", then step.waitForEvent("wait-draft-approval")
PipelineUpdateDraft(r) ==
  /\ runs[r].pc = "update-draft"
  /\ PipelineWrite(r, "update-draft",
                   [Draft |-> runs[r].text, Status |-> "Draft Review"],
                   "wait-draft-approval")

\* step "finalize" and the return of {status: "complete"}
PipelineFinalize(r) ==
  /\ runs[r].fn = "contentPipeline" /\ runs[r].pc = "finalize"
  /\ LET draftApproval == runs[r].events[2] IN
     Persist(r, [FinalContent |-> draftApproval.data.draft, Status |-> "Complete"], "complete")
  /\ UNCHANGED <<queue, Others>>

InitPipeline ==
  /\ env = Secret
  /\ store \in ReadyStores
  /\ inbox = StartRequest("rec1", store["rec1"])
  /\ last = NoResponse
  /\ queue = <<>>
  /\ runs = [r \in RunIds |-> NoRun]
  /\ arrived = 0
  /\ finalizeImpl \in FinalizeImpls
  /\ llmMode \in LLMModes
  /\ lastWrite = {}
  /\ ContextAtStart
  /\ KeywordBaseAtStart

NextPipeline ==
  \/ \E feedback \in FeedbackValues : ApproveOutline("rec1", feedback)
  \/ \E feedback \in FeedbackValues : ApproveDraft("rec1", feedback)
  \/ PostStart
  \/ PostOutlineApproved
  \/ PostDraftApproved
  \/ DispatchPipeline
  \/ \E r \in RunIds : PipelineStoreRunId(r)
  \/ \E r \in RunIds : PipelineAssembleContext(r)
  \/ \E r \in RunIds : PipelineGenerateOutline(r)
  \/ \E r \in RunIds : PipelineUpdateOutline(r)
  \/ \E r \in RunIds : PipelineTimeout(r)
  \/ \E r \in RunIds : PipelineUpdateDraftingStatus(r)
  \/ \E r \in RunIds : PipelineGenerateDraft(r)
  \/ \E r \in RunIds : PipelineUpdateDraft(r)
  \/ \E r \in RunIds : PipelineFinalize(r)

SpecPipeline == InitPipeline /\ [][NextPipeline]_vars

----------------------------------------------------------------------------
(* Context assembly: one record taken through the stage functions while
   artifacts are active and the context directory holds some of the files *)

Artifact(type, content) == [type |-> type, content |-> Str(<<content>>)]

\* The active rows of the Context Artifacts table: none; two of a Type that
\* a file also supplies, with rows typed like the linked records; rows of
\* other Types
ArtifactLists ==
  {<<>>,
   <<Artifact("companyProfile", "A1"), Artifact("industry", "A3"),
     Artifact("companyProfile", "A2"), Artifact("persona", "A4")>>,
   <<Artifact("caseStudies", "A5"), Artifact("keywords", "A6"),
     Artifact("productOverview", "A7")>>}

\* The context directory as shipped, or with another choice of files
ContextDirs ==
  {ContextDir,
   [name \in ContextNames |->
      IF name \in {"product-overview", "differentiators"} THEN Str(<<name, ".md">>)
      ELSE Undefined]}

\* The start request of Script 1, or of a client that leaves the optional
\* links out of the body
StartRequests(id, fields) ==
  {StartRequest(id, fields),
   Req("start", Secret,
       [StartRequest(id, fields).body EXCEPT !.industryId = Undefined,
                                             !.personaId = Undefined])}

InitContext ==
  /\ env = Secret
  /\ store \in {t \in ReadyStores : t["rec1"].ContentType = Str(<<"blog">>)}
  /\ inbox \in StartRequests("rec1", store["rec1"])
  /\ last = NoResponse
  /\ queue = <<>>
  /\ runs = [r \in DOMAIN StageFunctions |-> NoRun]
  /\ arrived = 0
  /\ finalizeImpl = "feedback-fork"
  /\ llmMode = "up"
  /\ lastWrite = {}
  /\ files \in ContextDirs
  /\ contextCache = [name \in ContextNames |-> Undefined]
  /\ artifacts \in ArtifactLists
  /\ returned = NoCall
  /\ KeywordBaseAtStart

NextContext ==
  \/ \E feedback \in FeedbackValues : ApproveOutline("rec1", feedback)
  \/ \E feedback \in FeedbackValues : ApproveDraft("rec1", feedback)
  \/ PostStart
  \/ PostOutlineApproved
  \/ PostDraftApproved
  \/ Dispatch
  \/ \E r \in DOMAIN runs : StoreRunId(r)
  \/ \E r \in DOMAIN runs : GetRecord(r)
  \/ \E r \in DOMAIN runs : OutlineAssembleContext(r)
  \/ \E r \in DOMAIN runs : GenerateOutlineStep(r)
  \/ \E r \in DOMAIN runs : UpdateOutline(r)
  \/ \E r \in DOMAIN runs : UpdateDraftingStatus(r)
  \/ \E r \in DOMAIN runs : DraftAssembleContext(r)
  \/ \E r \in DOMAIN runs : GenerateDraftStep(r)
  \/ \E r \in DOMAIN runs : UpdateDraft(r)
  \/ \E r \in DOMAIN runs : FinalizeAssembleContext(r)
  \/ \E r \in DOMAIN runs : GenerateRefinedContent(r)
  \/ \E r \in DOMAIN runs : Finalize(r)

SpecContext == InitContext /\ [][NextContext]_vars

----------------------------------------------------------------------------
(* The context loader on its own: calls, edits of the files, clearing *)

\* The files a developer edits: one the repository ships, one it lacks
EditedNames == {"company-profile", "product-overview"}

\* New content of an edited file: deleted, empty, or rewritten
EditedContents == {Undefined, Str(<<>>), Str(<<"edited">>)}

\* The name lists getContextBundle is called with
BundleLists == {ContextNames, {"company-profile", "voice-guidelines"}}

InitLoader ==
  /\ env = Secret
  /\ store = DefaultStore
  /\ inbox = NoRequest
  /\ last = NoResponse
  /\ queue = <<>>
  /\ runs = [r \in RunIds |-> NoRun]
  /\ arrived = 0
  /\ finalizeImpl = "feedback-fork"
  /\ llmMode = "up"
  /\ lastWrite = {}
  /\ ContextAtStart
  /\ KeywordBaseAtStart

NextLoader ==
  \/ \E name \in ContextNames : CallGetContext(name)
  \/ \E names \in BundleLists : CallGetContextBundle(names)
  \/ clearContextCache
  \/ \E name \in EditedNames, content \in EditedContents : EditFile(name, content)

SpecLoader == InitLoader /\ [][NextLoader]_vars

----------------------------------------------------------------------------
(* lib/airtable-keywords.ts: the Content Ideas and Keyword Bank tables *)

\* A Content Ideas record
Idea(title, keywords, status) ==
  [Title |-> title, ClusterName |-> Undefined, PrimaryKeyword |-> Undefined,
   Keywords |-> keywords, Industry |-> Undefined, Persona |-> Undefined,
   ContentType |-> Undefined, ContentAngles |-> Undefined,
   CompetitorAnalysis |-> Undefined, Status |-> status,
   PromotedRecordID |-> Undefined, SearchIntent |-> Undefined]

\* A Keyword Bank record
Keyword(keyword, status) ==
  [Keyword |-> keyword, Status |-> status, SearchVolume |-> Undefined,
   KeywordDifficulty |-> Undefined, Source |-> Undefined, SeedTopic |-> Undefined,
   Cluster |-> Undefined]

\* ideasTable.find / keywordBankTable.find throw for an id the table lacks
IdeaFound(id) == id.t = "string" /\ Len(id.v) = 1 /\ id.v[1] \in DOMAIN ideas

KeywordFound(id) == id \in DOMAIN keywordBank

\* updateIdeaRecord(recordId, fields)
updateIdeaRecord(id, changes) == ideas' = [ideas EXCEPT ![id.v[1]] = Merge(@, changes)]

\* Record ids Airtable hands out, in the order it hands them out
NewIds == <<"new1", "new2", "new3", "new4", "new5", "new6">>

NewId(table) ==
  NewIds[CHOOSE i \in 1..Len(NewIds) :
           NewIds[i] \notin DOMAIN table /\ \A j \in 1..(i - 1) : NewIds[j] \in DOMAIN table]

\* table.create([{ fields }])
Created(table, fields) ==
  [id \in DOMAIN table \cup {NewId(table)} |->
     IF id \in DOMAIN table THEN table[id] ELSE fields]

\* What the steps of the ideation functions leave alone, tables apart
OthersButTables ==
  <<env, store, inbox, last, queue, arrived, finalizeImpl, llmMode, lastWrite, ContextVars>>

\* step "get-idea" of generateTitles and promoteToPipeline; a function that
\* finds no linked keyword returns (after a Status write, for generateTitles)
GetIdea(r) ==
  /\ runs[r].fn \in {"generateTitles", "promoteToPipeline"} /\ runs[r].pc = "get-idea"
  /\ IF IdeaFound(runs[r].ev.recordId)
     THEN LET idea == ideas[runs[r].ev.recordId.v[1]] IN
          IF runs[r].fn = "generateTitles"
          THEN Goto(r, "status-generating", [record |-> idea])
          ELSE IF Len(OrElse(idea.Keywords, Arr(<<>>)).v) = 0
          THEN Goto(r, "done", [record |-> idea, result |-> "error"])
          ELSE Goto(r, "get-keywords", [record |-> idea])
     ELSE Fail(r, NoLocals)
  /\ UNCHANGED <<OthersButTables, KeywordVars>>

\* step "get-keywords": getKeywordBankRecord of every linked id
GetKeywords(r) ==
  /\ runs[r].fn \in {"generateTitles", "promoteToPipeline"} /\ runs[r].pc = "get-keywords"
  /\ LET ids == runs[r].record.Keywords.v IN
     IF \A i \in 1..Len(ids) : KeywordFound(ids[i])
     THEN Goto(r, IF runs[r].fn = "generateTitles" THEN "generate" ELSE "create-pipeline-record",
               [ctx |-> [keywords |-> [i \in 1..Len(ids) |-> keywordBank[ids[i]]],
                         pipelineRecordId |-> Undefined]])
     ELSE Fail(r, NoLocals)
  /\ UNCHANGED <<OthersButTables, KeywordVars>>

----------------------------------------------------------------------------
(* inngest/functions/generate-titles.ts *)

\* What a response is made of: braces, commas, the member "title": "T", the
\* members "angles": ["A"], "competitorAnalysis": "C" (one token for the
\* two), a key that takes an object as its value, and prose
TitleTokens == {"{", "}", ",", "t", "a", "k:", "x"}

\* Longest response, in tokens
MaxTextLen == 4

TitleResponses == UNION {[1..n -> TitleTokens] : n \in 0..MaxTextLen}

NoParse == [ok |-> FALSE, next |-> 0, keys |-> {}]

RECURSIVE ParseObject(_, _)
RECURSIVE ParseMembers(_, _)

\* One member of an object, from position i of s
ParseMember(s, i) ==
  IF i > Len(s) THEN NoParse
  ELSE IF s[i] \in {"t", "a"} THEN [ok |-> TRUE, next |-> i + 1, keys |-> {s[i]}]
  ELSE IF s[i] = "k:"
  THEN LET o == ParseObject(s, i + 1) IN
       IF o.ok THEN [ok |-> TRUE, next |-> o.next, keys |-> {"k"}] ELSE NoParse
  ELSE NoParse

\* Members separated by commas
ParseMembers(s, i) ==
  LET m == ParseMember(s, i) IN
  IF ~m.ok THEN NoParse
  ELSE IF m.next <= Len(s) /\ s[m.next] = ","
  THEN LET rest == ParseMembers(s, m.next + 1) IN
       IF rest.ok THEN [rest EXCEPT !.keys = @ \cup m.keys] ELSE NoParse
  ELSE m

\* An object: braces around no member or around members
ParseObject(s, i) ==
  IF i > Len(s) \/ s[i] # "{" THEN NoParse
  ELSE IF i + 1 <= Len(s) /\ s[i + 1] = "}"
  THEN [ok |-> TRUE, next |-> i + 2, keys |-> {}]
  ELSE LET ms == ParseMembers(s, i + 1) IN
       IF ms.ok /\ ms.next <= Len(s) /\ s[ms.next] = "}"
       THEN [ms EXCEPT !.next = @ + 1] ELSE NoParse

\* JSON.parse of text that starts with a brace: the keys of the object, or a throw
JSONParse(s) ==
  LET o == ParseObject(s, 1) IN IF o.ok /\ o.next = Len(s) + 1 THEN o ELSE NoParse

\* Mutant of BraceMatch: a lazy quantifier, up to the first closing brace
BraceMatchLazy(s) ==
  LET opens == {i \in 1..Len(s) : s[i] = "{"}
      closes == {i \in 1..Len(s) : s[i] = "}"}
  IN IF opens = {} THEN <<>>
     ELSE LET first == CHOOSE i \in opens : \A j \in opens : i <= j IN
          IF \E j \in closes : j > first
          THEN SubSeq(s, first, CHOOSE j \in closes : j > first /\ \A k \in closes : k > first => j <= k)
          ELSE <<>>

\* response.match(/\{[\s\S]*\}/): from the first opening brace to the last
\* closing brace after it; the empty sequence stands for no match
BraceMatch(s) ==
  LET opens == {i \in 1..Len(s) : s[i] = "{"}
      closes == {i \in 1..Len(s) : s[i] = "}"}
  IN IF opens = {} THEN <<>>
     ELSE LET first == CHOOSE i \in opens : \A j \in opens : i <= j IN
          IF \E j \in closes : j > first
          THEN SubSeq(s, first, CHOOSE j \in closes : \A k \in closes : k <= j)
          ELSE <<>>

\* The fallback of parseTitleResponse's catch block
TitleDefaults(response) ==
  [title |-> Str(<<>>), angles |-> response, competitorAnalysis |-> Str(<<>>)]

\* parseTitleResponse
parseTitleResponse(response) ==
  LET parsed == JSONParse(BraceMatch(response.v)) IN
  IF ~parsed.ok THEN TitleDefaults(response)
  ELSE [title |-> IF "t" \in parsed.keys THEN Str(<<"T">>) ELSE Str(<<>>),
        angles |-> IF "a" \in parsed.keys THEN Str(<<"[", "A", "]">>) ELSE Str(<<"[]">>),
        competitorAnalysis |-> IF "a" \in parsed.keys THEN Str(<<"C">>) ELSE Str(<<>>)]

\* step "status-generating"
StatusGenerating(r) ==
  /\ runs[r].fn = "generateTitles" /\ runs[r].pc = "status-generating"
  /\ updateIdeaRecord(runs[r].ev.recordId, [Status |-> "Generating"])
  /\ Goto(r, IF Len(OrElse(runs[r].record.Keywords, Arr(<<>>)).v) = 0
             THEN "no-keywords-error" ELSE "get-keywords", NoLocals)
  /\ UNCHANGED <<OthersButTables, keywordBank, jobs>>

\* step "no-keywords-error"
NoKeywordsError(r) ==
  /\ runs[r].fn = "generateTitles" /\ runs[r].pc = "no-keywords-error"
  /\ updateIdeaRecord(runs[r].ev.recordId, [Status |-> "Draft"])
  /\ Goto(r, "done", [result |-> "error"])
  /\ UNCHANGED <<OthersButTables, keywordBank, jobs>>

\* step "generate": Claude answers with any text, or the call throws
GenerateTitle(r) ==
  /\ runs[r].fn = "generateTitles" /\ runs[r].pc = "generate"
  /\ IF LLMAnswers(runs[r].attempt)
     THEN \E text \in TitleResponses : Goto(r, "save-title", [text |-> Str(text)])
     ELSE Fail(r, NoLocals)
  /\ UNCHANGED <<OthersButTables, KeywordVars>>

\* step "save-title", with the parse that precedes it
SaveTitle(r) ==
  /\ runs[r].fn = "generateTitles" /\ runs[r].pc = "save-title"
  /\ LET parsed == parseTitleResponse(runs[r].text) IN
     updateIdeaRecord(runs[r].ev.recordId,
                      [Title |-> parsed.title, ContentAngles |-> parsed.angles,
                       CompetitorAnalysis |-> parsed.competitorAnalysis,
                       Status |-> "Review"])
  /\ Goto(r, "done", [result |-> "complete"])
  /\ UNCHANGED <<OthersButTables, keywordBank, jobs>>

\* The ideation base the title generator is exercised on: an idea with two
\* linked keywords, one with none, one linked to a keyword the bank lacks
TitleIdeas ==
  [id \in {"idea1", "idea2", "idea3"} |->
     Idea(Undefined,
          CASE id = "idea1" -> Arr(<<"kw1", "kw2">>)
            [] id = "idea2" -> Undefined
            [] OTHER -> Arr(<<"kw1", "kwX">>),
          "Draft")]

TitleKeywords ==
  [id \in {"kw1", "kw2"} |->
     Keyword(Str(<<IF id = "kw1" THEN "seo tools" ELSE "seo audit">>), "New")]

\* The idea ids a request names: the three ideas and one the table lacks
IdeaIds == {"idea1", "idea2", "idea3", "ideaX"}

\* Script "Generate Title": the webhook call for an idea
TitleCall(id) ==
  /\ CanSend
  /\ Send(Req("generate-title", Secret, [EmptyObj EXCEPT !.recordId = Str(<<id>>)]))
  /\ UNCHANGED store

InitTitles ==
  /\ env = Secret
  /\ store = DefaultStore
  /\ inbox = NoRequest
  /\ last = NoResponse
  /\ queue = <<>>
  /\ runs = [r \in {1} |-> NoRun]
  /\ arrived = 0
  /\ finalizeImpl = "feedback-fork"
  /\ llmMode = "up"
  /\ lastWrite = {}
  /\ ContextAtStart
  /\ keywordBank = TitleKeywords
  /\ ideas = TitleIdeas
  /\ jobs = <<>>

NextTitles ==
  \/ \E id \in IdeaIds : TitleCall(id)
  \/ PostKeyword
  \/ Dispatch
  \/ \E r \in DOMAIN runs : GetIdea(r)
  \/ \E r \in DOMAIN runs : StatusGenerating(r)
  \/ \E r \in DOMAIN runs : NoKeywordsError(r)
  \/ \E r \in DOMAIN runs : GetKeywords(r)
  \/ \E r \in DOMAIN runs : GenerateTitle(r)
  \/ \E r \in DOMAIN runs : SaveTitle(r)

SpecTitles == InitTitles /\ [][NextTitles]_vars

----------------------------------------------------------------------------
(* inngest/functions/promote-to-pipeline.ts *)

\* Mutant of Join: the first keyword only
JoinFirst(texts) == IF Len(texts) = 0 THEN Str(<<>>) ELSE OrElse(texts[1], Str(<<>>))

RECURSIVE Join(_)

\* texts.join(", "): an undefined element joins as the empty string
Join(texts) ==
  IF Len(texts) = 0 THEN Str(<<>>)
  ELSE IF Len(texts) = 1 THEN OrElse(texts[1], Str(<<>>))
  ELSE Str(OrElse(texts[1], Str(<<>>)).v \o <<", ">> \o Join(Tail(texts)).v)

\* createPipelineRecord (the notes are left out of the model)
createPipelineRecord(title, industryId, personaId, contentType, keywords) ==
  store' = Created(store,
                   Fields(title, contentType,
                          IF Truthy(industryId) THEN Arr(<<industryId.v[1]>>) ELSE Undefined,
                          IF Truthy(personaId) THEN Arr(<<personaId.v[1]>>) ELSE Undefined,
                          keywords, "Draft"))

\* step "create-pipeline-record"
CreatePipelineRecord(r) ==
  /\ runs[r].fn = "promoteToPipeline" /\ runs[r].pc = "create-pipeline-record"
  /\ LET idea == runs[r].record
         keywords == runs[r].ctx.keywords
     IN createPipelineRecord(
          OrElse(OrElse(OrElse(idea.Title, idea.ClusterName), idea.PrimaryKeyword),
                 keywords[1].Keyword),
          FirstOf(idea.Industry), FirstOf(idea.Persona),
          OrElse(idea.ContentType, Str(<<"blog">>)),
          Join([i \in 1..Len(keywords) |-> keywords[i].Keyword]))
  /\ Goto(r, "update-idea-status",
          [ctx |-> [runs[r].ctx EXCEPT !.pipelineRecordId = Str(<<NewId(store)>>)]])
  /\ UNCHANGED <<env, inbox, last, queue, arrived, finalizeImpl, llmMode, lastWrite,
                 ContextVars, KeywordVars>>

\* step "update-idea-status"
UpdateIdeaStatus(r) ==
  /\ runs[r].fn = "promoteToPipeline" /\ runs[r].pc = "update-idea-status"
  /\ updateIdeaRecord(runs[r].ev.recordId,
                      [Status |-> "Promoted",
                       PromotedRecordID |-> runs[r].ctx.pipelineRecordId])
  /\ Goto(r, "done", [result |-> "complete"])
  /\ UNCHANGED <<OthersButTables, keywordBank, jobs>>

\* Approved ideas: two linked keywords, none, one the bank lacks, one
PromoteIdeas ==
  [id \in {"idea1", "idea2", "idea3", "idea4"} |->
     Idea(IF id = "idea4" THEN Undefined ELSE Str(<<"title of ", id>>),
          CASE id = "idea1" -> Arr(<<"kw2", "kw1">>)
            [] id = "idea2" -> Undefined
            [] id = "idea3" -> Arr(<<"kw1", "kwX">>)
            [] OTHER -> Arr(<<"kw1">>),
          "Approved")]

\* Script "Promote": the webhook call for an approved idea
PromoteCall(id) ==
  /\ CanSend
  /\ Send(Req("promote", Secret, [EmptyObj EXCEPT !.recordId = Str(<<id>>)]))
  /\ UNCHANGED store

InitPromote ==
  /\ env = Secret
  /\ store = DefaultStore
  /\ inbox = NoRequest
  /\ last = NoResponse
  /\ queue = <<>>
  /\ runs = [r \in RunIds |-> NoRun]
  /\ arrived = 0
  /\ finalizeImpl = "feedback-fork"
  /\ llmMode = "up"
  /\ lastWrite = {}
  /\ ContextAtStart
  /\ keywordBank = TitleKeywords
  /\ ideas = PromoteIdeas
  /\ jobs = <<>>

NextPromote ==
  \/ \E id \in DOMAIN PromoteIdeas \cup {"ideaX"} : PromoteCall(id)
  \/ PostKeyword
  \/ Dispatch
  \/ \E r \in RunIds : GetIdea(r)
  \/ \E r \in RunIds : GetKeywords(r)
  \/ \E r \in RunIds : CreatePipelineRecord(r)
  \/ \E r \in RunIds : UpdateIdeaStatus(r)

SpecPromote == InitPromote /\ [][NextPromote]_vars

----------------------------------------------------------------------------
(* inngest/functions/keyword-research.ts: research of one seed keyword *)

\* toLowerCase, on the keywords of this model
Lower(k) == IF k = "SEO tools" THEN "seo tools" ELSE k

SameKeyword(a, b) ==
  Len(a.v) = Len(b.v) /\ \A i \in 1..Len(a.v) : Lower(a.v[i]) = Lower(b.v[i])

\* What DataForSEO knows of one keyword
KeywordDatum(keyword, volume) ==
  [keyword |-> keyword, searchVolume |-> volume, keywordDifficulty |-> 50]

\* Mutant of researchSeed: the seed is not among the keywords looked up
researchSeedIdeasOnly(seed, volume, ideasFound) == ideasFound

\* dataForSEO.researchSeed: the seed itself, then the keyword ideas
researchSeed(seed, volume, ideasFound) == <<KeywordDatum(seed, volume)>> \o ideasFound

\* keywords.find(k => k.keyword.toLowerCase() === keyword.toLowerCase())
SeedData(keywords, keyword) ==
  LET hits == {i \in 1..Len(keywords) : SameKeyword(keywords[i].keyword, keyword)} IN
  IF hits = {} THEN Undefined
  ELSE keywords[CHOOSE i \in hits : \A j \in hits : i <= j]

\* keywords.filter(k => not the seed && k.searchVolume >= 50)
RelatedKeywords(keywords, keyword) ==
  SelectSeq(keywords, LAMBDA k : ~SameKeyword(k.keyword, keyword) /\ k.searchVolume >= 50)

\* The step the function body reaches once research-seed has returned and
\* `done` related keywords have been created
AfterResearch(keywords, keyword, seedWritten, created) ==
  IF SeedData(keywords, keyword) # Undefined /\ ~seedWritten THEN "update-seed-record"
  ELSE IF created < Len(RelatedKeywords(keywords, keyword)) THEN "create-related"
  ELSE "update-research-job-complete"

\* step "create-research-job"
CreateResearchJob(r) ==
  /\ runs[r].fn = "keywordResearch" /\ runs[r].pc = "create-research-job"
  /\ jobs' = Created(jobs, [SeedKeywords |-> runs[r].ev.keyword, Status |-> "Running",
                            KeywordsCreated |-> Undefined])
  /\ Goto(r, "status-researching",
          [ctx |-> [job |-> NewId(jobs), keywords |-> <<>>, created |-> <<>>]])
  /\ UNCHANGED <<OthersButTables, keywordBank, ideas>>

\* updateKeywordBankRecord(recordId, fields)
updateKeywordBankRecord(id, changes) ==
  keywordBank' = [keywordBank EXCEPT ![id.v[1]] = Merge(@, changes)]

\* step "status-researching"
StatusResearching(r) ==
  /\ runs[r].fn = "keywordResearch" /\ runs[r].pc = "status-researching"
  /\ IF runs[r].ev.recordId.v[1] \in DOMAIN keywordBank
     THEN /\ updateKeywordBankRecord(runs[r].ev.recordId, [Status |-> "Researching"])
          /\ Goto(r, "research-seed", NoLocals)
     ELSE /\ Fail(r, NoLocals)
          /\ UNCHANGED keywordBank
  /\ UNCHANGED <<OthersButTables, ideas, jobs>>

\* step "research-seed": DataForSEO answers with some volume for the seed
\* and some keyword ideas, or the request throws
ResearchSeed(r, volume, ideasFound) ==
  /\ runs[r].fn = "keywordResearch" /\ runs[r].pc = "research-seed"
  /\ \/ LET keywords == researchSeed(runs[r].ev.keyword, volume, ideasFound) IN
        Goto(r, AfterResearch(keywords, runs[r].ev.keyword, FALSE, 0),
             [ctx |-> [runs[r].ctx EXCEPT !.keywords = keywords]])
     \/ Fail(r, NoLocals)
  /\ UNCHANGED <<OthersButTables, KeywordVars>>

\* step "update-seed-record"
UpdateSeedRecord(r) ==
  /\ runs[r].fn = "keywordResearch" /\ runs[r].pc = "update-seed-record"
  /\ LET seedData == SeedData(runs[r].ctx.keywords, runs[r].ev.keyword) IN
     updateKeywordBankRecord(runs[r].ev.recordId,
                             [SearchVolume |-> seedData.searchVolume,
                              KeywordDifficulty |-> seedData.keywordDifficulty,
                              Status |-> "New", SeedTopic |-> runs[r].ev.keyword])
  /\ Goto(r, AfterResearch(runs[r].ctx.keywords, runs[r].ev.keyword, TRUE, 0), NoLocals)
  /\ UNCHANGED <<OthersButTables, ideas, jobs>>

\* step "create-related-<keyword>", for the next related keyword
CreateRelated(r) ==
  /\ runs[r].fn = "keywordResearch" /\ runs[r].pc = "create-related"
  /\ LET created == runs[r].ctx.created
         kwData == RelatedKeywords(runs[r].ctx.keywords, runs[r].ev.keyword)[Len(created) + 1]
     IN /\ keywordBank' =
             Created(keywordBank,
                     [Keyword |-> kwData.keyword, Status |-> "New",
                      SearchVolume |-> kwData.searchVolume,
                      KeywordDifficulty |-> kwData.keywordDifficulty,
                      Source |-> "Manual", SeedTopic |-> runs[r].ev.keyword])
        /\ Goto(r, AfterResearch(runs[r].ctx.keywords, runs[r].ev.keyword, TRUE,
                                 Len(created) + 1),
                [ctx |-> [runs[r].ctx EXCEPT !.created = Append(created, NewId(keywordBank))]])
  /\ UNCHANGED <<OthersButTables, ideas, jobs>>

\* step "update-research-job-complete"
UpdateResearchJobComplete(r) ==
  /\ runs[r].fn = "keywordResearch" /\ runs[r].pc = "update-research-job-complete"
  /\ jobs' = [jobs EXCEPT ![runs[r].ctx.job] =
                Merge(@, [Status |-> "Complete",
                          KeywordsCreated |-> Len(runs[r].ctx.created) + 1])]
  /\ Goto(r, "done", [result |-> "complete"])
  /\ UNCHANGED <<OthersButTables, keywordBank, ideas>>

\* Seed rows of the Keyword Bank: one in mixed case, one in lower case
SeedBank ==
  [id \in {"kw1", "kw2"} |->
     Keyword(Str(<<IF id = "kw1" THEN "SEO tools" ELSE "seo audit">>), "Research")]

\* Search volumes DataForSEO reports: none, below and at the threshold of
\* related keywords, above it
SeedVolumes == {0, 49, 50, 1000}

\* Keyword ideas DataForSEO returns for a seed
IdeaLists ==
  {<<>>,
   <<KeywordDatum(Str(<<"seo tools">>), 500), KeywordDatum(Str(<<"seo checker">>), 49),
     KeywordDatum(Str(<<"seo report">>), 50)>>,
   <<KeywordDatum(Str(<<"seo audit">>), 1000), KeywordDatum(Str(<<"seo checker">>), 0),
     KeywordDatum(Str(<<"seo report">>), 70)>>}

\* Script "Research": the webhook call for a Keyword Bank row
ResearchCall(id) ==
  /\ CanSend
  /\ Send(Req("research", Secret,
              [EmptyObj EXCEPT !.recordId = Str(<<id>>),
                               !.keyword = IF id \in DOMAIN keywordBank
                                           THEN keywordBank[id].Keyword
                                           ELSE Str(<<"gone">>)]))
  /\ UNCHANGED store

InitResearch ==
  /\ env = Secret
  /\ store = DefaultStore
  /\ inbox = NoRequest
  /\ last = NoResponse
  /\ queue = <<>>
  /\ runs = [r \in {1} |-> NoRun]
  /\ arrived = 0
  /\ finalizeImpl = "feedback-fork"
  /\ llmMode = "up"
  /\ lastWrite = {}
  /\ ContextAtStart
  /\ keywordBank = SeedBank
  /\ ideas = <<>>
  /\ jobs = <<>>

NextResearch ==
  \/ \E id \in {"kw1", "kw2", "kwX"} : ResearchCall(id)
  \/ PostKeyword
  \/ Dispatch
  \/ \E r \in DOMAIN runs : CreateResearchJob(r)
  \/ \E r \in DOMAIN runs : StatusResearching(r)
  \/ \E r \in DOMAIN runs, volume \in SeedVolumes, ideasFound \in IdeaLists :
       ResearchSeed(r, volume, ideasFound)
  \/ \E r \in DOMAIN runs : UpdateSeedRecord(r)
  \/ \E r \in DOMAIN runs : CreateRelated(r)
  \/ \E r \in DOMAIN runs : UpdateResearchJobComplete(r)

SpecResearch == InitResearch /\ [][NextResearch]_vars

----------------------------------------------------------------------------
(* inngest/functions/keyword-research.ts: the SEO opportunity score.
   Volumes and difficulties are whole numbers; the score is computed in
   hundredths so that Math.round is a floor division *)

\* Math.round of x / 100: the nearest integer, a half rounding up
RoundHundredths(x) == (x + 50) \div 100

Min(a, b) == IF a < b THEN a ELSE b

\* Mutant of calculateSEOScore: difficulty adds to the score
calculateSEOScoreRising(data) ==
  RoundHundredths(Min(data.searchVolume, 5000)
                  + (5000 + 50 * data.keywordDifficulty)
                  + (IF "Featured Snippet" \in data.serpFeatures THEN 500 ELSE 0)
                  + (IF "PAA" \in data.serpFeatures THEN 300 ELSE 0))

\* calculateSEOScore: min(volume / 100, 50) + (50 - difficulty / 2) + bonus
calculateSEOScore(data) ==
  RoundHundredths(Min(data.searchVolume, 5000)
                  + (5000 - 50 * data.keywordDifficulty)
                  + (IF "Featured Snippet" \in data.serpFeatures THEN 500 ELSE 0)
                  + (IF "PAA" \in data.serpFeatures THEN 300 ELSE 0))

\* A call of calculateSEOScore on what researchKeyword returned
CallCalculateSEOScore(data) ==
  /\ returned' = [op |-> "calculateSEOScore", data |-> data,
                  value |-> calculateSEOScore(data), n |-> 1 - returned.n]
  /\ UNCHANGED <<contextCache, files, OthersButContext>>

\* Search volumes around the rounding steps and the cap of 50 points
Volumes == {0, 49, 50, 99, 100, 4949, 4950, 5000, 5001, 9000}

\* Keyword difficulties, DataForSEO's scale of 0..100
Difficulties == {0, 1, 2, 3, 50, 99, 100}

\* SERP feature lists: none, each scored feature, both, one that scores nothing
FeatureLists ==
  {{}, {"Featured Snippet"}, {"PAA"}, {"Featured Snippet", "PAA"}, {"Local Pack"}}

KeywordDataSet ==
  [searchVolume : Volumes, keywordDifficulty : Difficulties, serpFeatures : FeatureLists]

InitScore == InitLoader

NextScore == \E data \in KeywordDataSet : CallCalculateSEOScore(data)

SpecScore == InitScore /\ [][NextScore]_vars

----------------------------------------------------------------------------
(* index.ts: the routes and the served functions together. Runs are started
   and not carried further *)

\* One accepted call of every route
RegistryRequests ==
  {StartRequest("rec1", DefaultStore["rec1"]),
   Req("outline-approved", Secret,
       [EmptyObj EXCEPT !.recordId = Str(<<"rec1">>), !.outline = Str(<<"O">>)]),
   Req("draft-approved", Secret,
       [EmptyObj EXCEPT !.recordId = Str(<<"rec1">>), !.draft = Str(<<"D">>)]),
   Req("batch", Secret,
       [EmptyObj EXCEPT !.recordIds = Arr(<<"rec1">>), !.action = Str(<<"start">>)])}
  \cup {Req(route, Secret,
            [EmptyObj EXCEPT !.recordId = Str(<<"kw1">>), !.keyword = Str(<<"seo">>),
                             !.seedTopic = Str(<<"seo">>)]) : route \in KeywordRoutes}

\* An Airtable script or a cron job calls a route
WebhookCall(req) ==
  /\ CanSend
  /\ Send(req)
  /\ UNCHANGED store

InitRegistry == InitLoader

NextRegistry ==
  \/ \E req \in RegistryRequests : WebhookCall(req)
  \/ PostStart
  \/ PostOutlineApproved
  \/ PostDraftApproved
  \/ PostBatch
  \/ PostKeyword
  \/ Dispatch

\* Requests are answered and pending events are handed to Inngest's functions
SpecRegistry == InitRegistry /\ [][NextRegistry]_vars /\ WF_vars(NextRegistry)

----------------------------------------------------------------------------
(* contentPipeline with two records in play: runs of both wait, approvals of
   either arrive, with an outline or draft the reviewer has edited *)

\* The approvals a reviewer sends for a record
ApprovalRequests(id) ==
  {Req("outline-approved", Secret,
       [EmptyObj EXCEPT !.recordId = Str(<<id>>),
                        !.outline = Str(<<"approved outline of ", id>>),
                        !.feedback = Str(<<"feedback on ", id>>)]),
   Req("draft-approved", Secret,
       [EmptyObj EXCEPT !.recordId = Str(<<id>>),
                        !.draft = Str(<<"approved draft of ", id>>)])}

WaitingRequests ==
  {StartRequest("rec2", DefaultStore["rec2"])}
  \cup ApprovalRequests("rec1") \cup ApprovalRequests("rec2")

InitWaiting ==
  /\ env = Secret
  /\ store = DefaultStore
  /\ inbox = StartRequest("rec1", DefaultStore["rec1"])
  /\ last = NoResponse
  /\ queue = <<>>
  /\ runs = [r \in RunIds |-> NoRun]
  /\ arrived = 0
  /\ finalizeImpl = "feedback-fork"
  /\ llmMode = "up"
  /\ lastWrite = {}
  /\ ContextAtStart
  /\ KeywordBaseAtStart

NextWaiting ==
  \/ \E req \in WaitingRequests : WebhookCall(req)
  \/ PostStart
  \/ PostOutlineApproved
  \/ PostDraftApproved
  \/ DispatchPipeline
  \/ \E r \in RunIds : PipelineStoreRunId(r)
  \/ \E r \in RunIds : PipelineAssembleContext(r)
  \/ \E r \in RunIds : PipelineGenerateOutline(r)
  \/ \E r \in RunIds : PipelineUpdateOutline(r)
  \/ \E r \in RunIds : PipelineTimeout(r)
  \/ \E r \in RunIds : PipelineUpdateDraftingStatus(r)
  \/ \E r \in RunIds : PipelineGenerateDraft(r)
  \/ \E r \in RunIds : PipelineUpdateDraft(r)
  \/ \E r \in RunIds : PipelineFinalize(r)

SpecWaiting == InitWaiting /\ [][NextWaiting]_vars

----------------------------------------------------------------------------
(* inngest/functions/auto-cluster.ts, run by an Inngest that serves it *)

\* The Keyword Bank the clusterer is exercised on, in table order: two new
\* keywords researched from seed "seo", one of that seed already clustered,
\* one rejected keyword that is itself the seed "ppc"
ClusterBankOrder == <<"kw1", "kw2", "kw3", "kw4">>

ClusterKeywords ==
  [id \in Range(ClusterBankOrder) |->
     [Keyword(Str(<<IF id = "kw4" THEN "ppc" ELSE id>>),
              CASE id = "kw3" -> "Clustered" [] id = "kw4" -> "Rejected" [] OTHER -> "New")
        EXCEPT !.SeedTopic = IF id = "kw4" THEN Undefined ELSE Str(<<"seo">>)]]

ClusterIdeas == [id \in {"idea1"} |-> Idea(Undefined, Undefined, "Auto-Cluster")]

ClusterSeeds == {"seo", "ppc"}

\* Mutant of getKeywordsBySeed: the Status of a keyword is not looked at
getKeywordsBySeedAnyStatus(seedTopic) ==
  SelectSeq(ClusterBankOrder,
            LAMBDA id : \/ keywordBank[id].SeedTopic = seedTopic
                        \/ keywordBank[id].Keyword = seedTopic)

\* getKeywordsBySeed(seedTopic): the filterByFormula of the select
getKeywordsBySeed(seedTopic) ==
  SelectSeq(ClusterBankOrder,
            LAMBDA id : /\ \/ keywordBank[id].SeedTopic = seedTopic
                           \/ keywordBank[id].Keyword = seedTopic
                        /\ keywordBank[id].Status # "Clustered"
                        /\ keywordBank[id].Status # "Rejected")

\* What JSON.parse(jsonMatch[0]) gives for the answers Claude may return:
\* an object without selectedIds, one id selected, two (not in table
\* order), an id the bank lacks; some with primaryKeyword, contentType and
\* intent, some without
ClusterResult(ids, p) ==
  [selectedIds |-> ids, primaryKeyword |-> p, contentType |-> p, intent |-> p]

ClusterResults ==
  {ClusterResult(Undefined, Str(<<"picked">>)), ClusterResult(Arr(<<"kw1">>), Undefined),
   ClusterResult(Arr(<<"kw2", "kw1">>), Str(<<"picked">>)),
   ClusterResult(Arr(<<"kw1", "kwX">>), Undefined)}

\* clusterResult.selectedIds || []
SelectedIds(run) == OrElse(run.ctx.cluster.selectedIds, Arr(<<>>)).v

\* Script "Auto-Cluster": the webhook call for an idea and its seed topic
ClusterCall(id, seed) ==
  /\ CanSend
  /\ Send(Req("cluster", Secret,
              [EmptyObj EXCEPT !.recordId = Str(<<id>>), !.seedTopic = Str(<<seed>>)]))
  /\ UNCHANGED store

\* Inngest with autoCluster served: keyword/cluster.auto starts a run
DispatchCluster ==
  /\ queue # <<>>
  /\ LET e == Head(queue) IN
     IF e.name = "keyword/cluster.auto"
     THEN /\ FreeRuns # {}
          /\ LET r == CHOOSE x \in FreeRuns : \A y \in FreeRuns : x <= y IN
             runs' = [runs EXCEPT ![r] = [NoRun EXCEPT !.fn = "autoCluster", !.ev = e.data,
                                                        !.pc = "status-clustering"]]
     ELSE UNCHANGED runs
  /\ queue' = Tail(queue)
  /\ UNCHANGED <<env, store, inbox, last, arrived, finalizeImpl, llmMode, lastWrite,
               ContextVars, KeywordVars>>

\* step "status-clustering"
StatusClustering(r) ==
  /\ runs[r].fn = "autoCluster" /\ runs[r].pc = "status-clustering"
  /\ IF IdeaFound(runs[r].ev.recordId)
     THEN /\ updateIdeaRecord(runs[r].ev.recordId, [Status |-> "Clustering"])
          /\ Goto(r, "get-keywords", NoLocals)
     ELSE /\ Fail(r, NoLocals)
          /\ UNCHANGED ideas
  /\ UNCHANGED <<OthersButTables, keywordBank, jobs>>

\* step "get-keywords", and the test of keywords.length that follows it
ClusterGetKeywords(r) ==
  /\ runs[r].fn = "autoCluster" /\ runs[r].pc = "get-keywords"
  /\ LET keywords == getKeywordsBySeed(runs[r].ev.seedTopic) IN
     Goto(r, IF Len(keywords) = 0 THEN "no-keywords" ELSE "prepare-keywords",
          [ctx |-> [keywords |-> keywords, keywordList |-> <<>>, cluster |-> Undefined,
                    linkedIds |-> <<>>, keywordsClustered |-> 0]])
  /\ UNCHANGED <<OthersButTables, KeywordVars>>

\* step "no-keywords" and the return after it
ClusterNoKeywords(r) ==
  /\ runs[r].fn = "autoCluster" /\ runs[r].pc = "no-keywords"
  /\ updateIdeaRecord(runs[r].ev.recordId, [Status |-> "Draft"])
  /\ Goto(r, "done", [result |-> "no-keywords"])
  /\ UNCHANGED <<OthersButTables, keywordBank, jobs>>

\* step "prepare-keywords"
PrepareKeywords(r) ==
  /\ runs[r].fn = "autoCluster" /\ runs[r].pc = "prepare-keywords"
  /\ LET keywords == runs[r].ctx.keywords IN
     Goto(r, "claude-cluster",
          [ctx |-> [runs[r].ctx EXCEPT
                      !.keywordList = [i \in 1..Len(keywords) |->
                                         [id |-> keywords[i],
                                          keyword |-> keywordBank[keywords[i]].Keyword]]]])
  /\ UNCHANGED <<OthersButTables, KeywordVars>>

\* step "claude-cluster": Claude answers with a JSON object, or with text
\* that holds none (the step throws), or the call throws; `linkedIds` is
\* declared after it
ClaudeCluster(r) ==
  /\ runs[r].fn = "autoCluster" /\ runs[r].pc = "claude-cluster"
  /\ LET call == Call("auto-cluster", [EmptyObj EXCEPT !.recordId = runs[r].ev.recordId]) IN
     \/ /\ LLMAnswers(runs[r].attempt)
        /\ \E result \in ClusterResults :
             Goto(r, IF Len(OrElse(result.selectedIds, Arr(<<>>)).v) = 0
                     THEN "update-idea" ELSE "link",
                  [ctx |-> [runs[r].ctx EXCEPT !.cluster = result, !.linkedIds = <<>>],
                   chunk |-> 0, llm |-> Append(runs[r].llm, call)])
     \/ Fail(r, [llm |-> Append(runs[r].llm, call)])
  /\ UNCHANGED <<OthersButTables, KeywordVars>>

\* What `linkedIds` holds when the function body goes on after a step: the
\* runtime either carries on in the invocation that ran the step, or returns
\* the step's result and invokes the function anew, in which case the body
\* starts over with `linkedIds = []` and completed steps are not run again
AfterStep(resumed, linkedIds) == IF resumed THEN <<>> ELSE linkedIds

\* step `link-${kwId}` for the next selected id
LinkKeyword(r) ==
  /\ runs[r].fn = "autoCluster" /\ runs[r].pc = "link"
  /\ LET kwId == SelectedIds(runs[r])[runs[r].chunk + 1] IN
     IF kwId \in DOMAIN keywordBank
     THEN /\ updateKeywordBankRecord(Str(<<kwId>>),
                                     [Cluster |-> Arr(<<runs[r].ev.recordId.v[1]>>),
                                      Status |-> "Clustered"])
          /\ \E resumed \in BOOLEAN :
               Goto(r, IF runs[r].chunk + 1 = Len(SelectedIds(runs[r]))
                       THEN "update-idea" ELSE "link",
                    [chunk |-> runs[r].chunk + 1,
                     ctx |-> [runs[r].ctx EXCEPT
                                !.linkedIds = AfterStep(resumed, Append(@, kwId))]])
     ELSE /\ Fail(r, [ctx |-> [runs[r].ctx EXCEPT !.linkedIds = <<>>]])
          /\ UNCHANGED keywordBank
  /\ UNCHANGED <<OthersButTables, ideas, jobs>>

\* step "update-idea" and the return after it
UpdateIdea(r) ==
  /\ runs[r].fn = "autoCluster" /\ runs[r].pc = "update-idea"
  /\ LET clusterResult == runs[r].ctx.cluster
         linkedIds == runs[r].ctx.linkedIds
     IN /\ updateIdeaRecord(runs[r].ev.recordId,
             [PrimaryKeyword |-> OrElse(clusterResult.primaryKeyword,
                                        runs[r].ctx.keywordList[1].keyword),
              ContentType |-> OrElse(clusterResult.contentType, Str(<<"blog">>)),
              SearchIntent |-> OrElse(clusterResult.intent, Str(<<"Informational">>)),
              Keywords |-> Arr(linkedIds),
              Status |-> "Review"])
        /\ \E resumed \in BOOLEAN :
             Goto(r, "done",
                  [result |-> "complete",
                   ctx |-> [runs[r].ctx EXCEPT
                              !.keywordsClustered = Len(AfterStep(resumed, linkedIds))]])
  /\ UNCHANGED <<OthersButTables, keywordBank, jobs>>

\* One idea, the bank above, room for two runs
InitCluster ==
  /\ env = Secret
  /\ store = DefaultStore
  /\ inbox = NoRequest
  /\ last = NoResponse
  /\ queue = <<>>
  /\ runs = [r \in {1, 2} |-> NoRun]
  /\ arrived = 0
  /\ finalizeImpl = "feedback-fork"
  /\ llmMode = "up"
  /\ lastWrite = {}
  /\ ContextAtStart
  /\ keywordBank = ClusterKeywords
  /\ ideas = ClusterIdeas
  /\ jobs = <<>>

NextCluster ==
  \/ \E id \in DOMAIN ClusterIdeas, seed \in ClusterSeeds : ClusterCall(id, seed)
  \/ PostKeyword
  \/ DispatchCluster
  \/ \E r \in DOMAIN runs : StatusClustering(r)
  \/ \E r \in DOMAIN runs : ClusterGetKeywords(r)
  \/ \E r \in DOMAIN runs : ClusterNoKeywords(r)
  \/ \E r \in DOMAIN runs : PrepareKeywords(r)
  \/ \E r \in DOMAIN runs : ClaudeCluster(r)
  \/ \E r \in DOMAIN runs : LinkKeyword(r)
  \/ \E r \in DOMAIN runs : UpdateIdea(r)

SpecCluster == InitCluster /\ [][NextCluster]_vars

----------------------------------------------------------------------------
(* Properties of the webhook gateway, checked under SpecGateway *)

\* The last request passed authenticateWebhook
LastAuthenticated == last.route # "none" /\ last.status # 401

StartRequired == {"recordId", "title", "contentType"}

StartOptional == {"industryId", "personaId", "keywords"}

LastStartBodyValid ==
  /\ \A k \in StartRequired : last.body[k].t = "string"
  /\ \A k \in StartOptional : last.body[k].t \in {"string", "undefined"}

LastStartValidated ==
  [k \in Keys |-> IF k \in StartRequired \cup StartOptional THEN last.body[k] ELSE Undefined]

C2_BadSecretRejected ==
  (last.route # "none" /\ (last.secret = Undefined \/ last.secret # env)) =>
    (last.status = 401 /\ last.emitted = <<>> /\ last.reads = 0)

\* A string of whitespace only (the empty string included)
IsBlank(x) == x.t = "string" /\ \A i \in 1..Len(x.v) : x.v[i] \in {" ", "\t"}

\* Undefined, null, not a string, or blank after trimming
Unusable(x) == x.t # "string" \/ IsBlank(x)

\* The last request was an authenticated, schema-valid outline approval
\* whose record was fetched
OutlineFetched ==
  /\ last.route = "outline-approved" /\ LastAuthenticated
  /\ last.body.recordId.t = "string" /\ last.body.outline.t = "string"
  /\ last.body.feedback.t \in {"string", "undefined"}
  /\ last.body.recordId.v \in {<<id>> : id \in DOMAIN store}

FetchedRecord == store[last.body.recordId.v[1]]

\* C3: for a schema-valid outline-approved request, an unusable Title or
\* Content Type of the fetched record gives 400 and no event; two non-empty
\* strings give exactly one content/outline.approved event.
C3_OutlineApprovedGate ==
  OutlineFetched =>
    IF Unusable(FetchedRecord.Title) \/ Unusable(FetchedRecord.ContentType)
    THEN last.status = 400 /\ last.emitted = <<>> /\ queue = <<>>
    ELSE /\ Len(last.emitted) = 1 /\ queue = last.emitted
         /\ last.emitted[1].name = "content/outline.approved"
         /\ last.status = 200

\* C3 witness: a whitespace-only Content Type was rejected
C3_Witness ==
  /\ OutlineFetched
  /\ ~Unusable(FetchedRecord.Title)
  /\ FetchedRecord.ContentType = Str(<<" ", "\t">>)
  /\ last.status = 400 /\ last.emitted = <<>>

\* The six checks in their fixed order: <<field, failure mode>>
CheckOrder ==
  <<<<"Title", "missing">>, <<"Title", "type">>, <<"Title", "empty">>,
    <<"Content Type", "missing">>, <<"Content Type", "type">>, <<"Content Type", "empty">>>>

CellOf(record, field) == IF field = "Title" THEN record.Title ELSE record.ContentType

\* Check i fails on the record
CheckFails(record, i) ==
  LET x == CellOf(record, CheckOrder[i][1])
      mode == CheckOrder[i][2]
  IN CASE mode = "missing" -> x.t \in {"undefined", "null"}
       [] mode = "type" -> x.t # "string"
       [] OTHER -> IsBlank(x)

\* The message is the one of check i
Names(message, i) ==
  LET field == CheckOrder[i][1]
      mode == CheckOrder[i][2]
  IN CASE mode = "missing" -> message = <<"Missing required field: ", field>>
       [] mode = "type" -> Len(message) = 4 /\ message[1] = "Invalid " /\ message[2] = field
                           /\ message[3] = " field type. Expected string, got "
       [] OTHER -> message = <<field, " field is empty">>

\* C4: when outline-approved rejects a record, the 400 message names exactly
\* one field and one failure mode, the first failing check in the order
\* Title-missing, Title-wrong-type, Title-empty, Content-Type-missing,
\* Content-Type-wrong-type, Content-Type-empty; a blank Title gives
\* "Title field is empty" whatever the Content Type is.
C4_FirstFailingCheckNamed ==
  (OutlineFetched /\ last.status = 400) =>
    LET failing == {i \in 1..6 : CheckFails(FetchedRecord, i)}
        first == CHOOSE i \in failing : \A j \in failing : i <= j
    IN /\ failing # {}
       /\ \A i \in 1..6 : Names(last.error, i) <=> i = first
       /\ IsBlank(FetchedRecord.Title) => last.error = <<"Title", " field is empty">>

\* C4 witness: a blank Title and a missing Content Type: the Title is named
C4_Witness ==
  /\ OutlineFetched /\ last.status = 400
  /\ FetchedRecord.Title = Str(<<" ", "\t">>)
  /\ FetchedRecord.ContentType = Undefined
  /\ last.error = <<"Title", " field is empty">>

\* The first id of a link field, undefined when the field is absent or empty
FirstLinked(x) == IF x.t = "array" /\ Len(x.v) > 0 THEN Str(<<x.v[1]>>) ELSE Undefined

OutlineEmitted == OutlineFetched /\ Len(last.emitted) = 1

\* What C5 says of every field but keywords
OutlineEventCarries ==
  LET data == last.emitted[1].data IN
  /\ data.recordId = last.body.recordId
  /\ data.outline = last.body.outline
  /\ data.feedback = last.body.feedback
  /\ data.title = FetchedRecord.Title
  /\ data.contentType = FetchedRecord.ContentType
  /\ data.industryId = FirstLinked(FetchedRecord.Industry)
  /\ data.personaId = FirstLinked(FetchedRecord.Persona)

\* C5 as claimed: the emitted content/outline.approved event carries
\* recordId, outline and feedback of the request, title and contentType of
\* the fetched record, the first linked Industry and Persona, and keywords
\* equal to the record's Target Keywords whenever the record has them.
C5_Original ==
  OutlineEmitted =>
    /\ OutlineEventCarries
    /\ last.emitted[1].data.keywords = FetchedRecord.TargetKeywords

\* C5 amended: as claimed, but keywords is the record's Target Keywords only
\* when that is a non-empty value, and undefined when the record has none
\* or has the empty string.
C5_OutlineEventEnriched ==
  OutlineEmitted =>
    /\ OutlineEventCarries
    /\ last.emitted[1].data.keywords =
         (IF FetchedRecord.TargetKeywords \in {Undefined, Str(<<>>)}
          THEN Undefined ELSE FetchedRecord.TargetKeywords)

\* C5 witness: an event enriched from a record with two linked industries,
\* a persona and an empty Target Keywords, for a request carrying its own title
C5_Witness ==
  /\ OutlineEmitted
  /\ last.body.title = Str(<<"REQ">>)
  /\ FetchedRecord.Industry = Arr(<<"i1", "i2">>)
  /\ FetchedRecord.Persona = Arr(<<"p1">>)
  /\ FetchedRecord.TargetKeywords = Str(<<>>)
  /\ last.emitted[1].data.industryId = Str(<<"i1">>)
  /\ last.emitted[1].data.keywords = Undefined

\* The last request was an authenticated, schema-valid draft approval
DraftRequested ==
  /\ last.route = "draft-approved" /\ LastAuthenticated
  /\ last.body.recordId.t = "string" /\ last.body.draft.t = "string"
  /\ last.body.feedback.t \in {"string", "undefined"}

C7_BatchSizeBoundary ==
  (last.route = "batch" /\ LastAuthenticated) =>
    LET ids == last.body.recordIds IN
    IF ids.t # "array" \/ Len(ids.v) = 0 \/ Len(ids.v) >= 101
    THEN last.status = 400 /\ last.emitted = <<>> /\ queue = <<>>
    ELSE /\ last.emitted =
              <<[name |-> "content/batch.trigger",
                 data |-> [EmptyObj EXCEPT !.recordIds = ids, !.action = last.body.action]]>>
         /\ queue = last.emitted
         /\ last.status = 200 /\ last.success

\* C7 witness: a batch of exactly 100 ids was accepted
C7_Witness ==
  /\ last.route = "batch" /\ last.status = 200
  /\ Len(last.body.recordIds.v) = 100
  /\ Len(last.emitted) = 1

----------------------------------------------------------------------------
(* Properties of the stage functions, checked under SpecStages *)

\* Position of a status in the order Draft, Ready, ..., Complete, Error
Rank(status) == CHOOSE i \in 1..Len(Statuses) : Statuses[i] = status

\* C8: no write performed by a function sets a record's Status to a value
\* earlier in the order Draft, Ready, Generating, Outline Review, Outline
\* Approved, Drafting, Draft Review, Draft Approved, Complete than the
\* Status the record has, except to Error; duplicate and late deliveries
\* and concurrent runs included.
C8_StatusOnlyForward ==
  \A w \in lastWrite : w.new = "Error" \/ Rank(w.new) >= Rank(w.old)

\* A Finalize run that has ended
FinalizeRuns(pcs) == {r \in RunIds : runs[r].fn = "finalizeContent" /\ runs[r].pc \in pcs}

\* Feedback that is present and not blank after trimming
NonBlank(x) == x.t = "string" /\ ~IsBlank(x)

\* C9: with feedback that is present and non-blank Finalize always calls the
\* LLM with the prompt finalize-{contentType} and persists Final Content =
\* the LLM text with Status Complete; with absent, empty or whitespace-only
\* feedback it never calls the LLM and persists Final Content = the event's
\* draft with Status Complete.
C9_FinalizeFork ==
  /\ \A r \in FinalizeRuns({"done"}) :
       IF NonBlank(runs[r].ev.feedback)
       THEN /\ Len(runs[r].llm) = 1
            /\ runs[r].llm[1].name \in {<<"finalize-", type>> : type \in ContentTypes}
            /\ runs[r].snap.FinalContent = LLMText(r)
            /\ runs[r].snap.Status = "Complete"
       ELSE /\ runs[r].llm = <<>>
            /\ runs[r].snap.FinalContent = runs[r].ev.draft
            /\ runs[r].snap.Status = "Complete"
  /\ \A r \in FinalizeRuns({"failed"}) :
       (llmMode = "up" /\ NonBlank(runs[r].ev.feedback)) => runs[r].llm # <<>>

\* C10: Finalize run twice with the same {recordId, draft, feedback} and
\* blank feedback leaves the record, after the second run as after the
\* first, with Final Content = draft and Status Complete.
C10_FinalizeIdempotent ==
  \A r1, r2 \in FinalizeRuns({"done"}) :
    (r1 # r2 /\ runs[r1].ev = runs[r2].ev /\ ~NonBlank(runs[r1].ev.feedback)) =>
      /\ runs[r1].snap.FinalContent = runs[r1].ev.draft
      /\ runs[r2].snap.FinalContent = runs[r1].snap.FinalContent
      /\ runs[r1].snap.Status = "Complete"
      /\ runs[r2].snap.Status = "Complete"

\* C10 witness: the same blank-feedback approval was finalized twice
C10_Witness ==
  \E r1, r2 \in FinalizeRuns({"done"}) :
    /\ r1 # r2 /\ runs[r1].ev = runs[r2].ev
    /\ runs[r1].ev.feedback = Str(<<" ">>)
    /\ runs[r1].ev.draft = Str(<<"D">>)
    /\ store[runs[r1].ev.recordId.v[1]].FinalContent = Str(<<"D">>)

----------------------------------------------------------------------------
(* Properties of duplicate deliveries, checked under SpecStages *)

\* The step answers an outline-approved request with success
AcceptsOutlineApproved ==
  inbox.route = "outline-approved" /\ inbox' = NoRequest /\ last'.status = 200

\* The step hands the oldest pending content/outline.approved event to Inngest
TakesOutlineApproved ==
  /\ queue # <<>> /\ queue' = Tail(queue)
  /\ Head(queue).name = "content/outline.approved"

DraftRunsDone == {r \in RunIds : runs[r].fn = "generateDraft" /\ runs[r].pc = "done"}

\* C11: duplicate deliveries are not deduplicated: every accepted
\* outline-approved request adds one content/outline.approved event for its
\* record, whatever is already pending or running; every such event starts
\* a Generate-Draft run of its own; and every such run that completes has
\* called the LLM and written Draft and Status for the record.
C11_DuplicatesNotDeduplicated ==
  /\ [][/\ AcceptsOutlineApproved =>
             /\ Len(queue') = Len(queue) + 1
             /\ queue'[Len(queue')].name = "content/outline.approved"
             /\ queue'[Len(queue')].data.recordId = inbox.body.recordId
        /\ TakesOutlineApproved =>
             \E r \in RunIds : /\ runs[r].fn = "none"
                               /\ runs'[r].fn = "generateDraft"
                               /\ runs'[r].ev = Head(queue).data]_vars
  /\ [](\A r \in DraftRunsDone :
          /\ runs[r].llm # <<>>
          /\ runs[r].snap.Draft = LLMText(r)
          /\ runs[r].snap.Status = "Draft Review")

\* C11 witness: the approval of one record was delivered twice and both
\* Generate-Draft runs wrote their own draft
C11_Witness ==
  \E r1, r2 \in DraftRunsDone :
    /\ r1 # r2 /\ runs[r1].ev = runs[r2].ev
    /\ arrived = 2
    /\ runs[r1].snap.Draft = LLMText(r1) /\ runs[r2].snap.Draft = LLMText(r2)
    /\ store[runs[r1].ev.recordId.v[1]].Status = "Draft Review"

----------------------------------------------------------------------------
(* Properties of one record's passage, checked under SpecEndToEnd *)

\* The run of a stage function in this passage
RunOf(fn) == CHOOSE r \in DOMAIN runs : runs[r].fn = fn

\* C12: with every collaborator answering and blank draft feedback, a start
\* request followed by an outline approval and a draft approval moves the
\* record's Status one place at a time along Ready, Generating, Outline
\* Review, Outline Approved, Drafting, Draft Review, Draft Approved,
\* Complete; Complete is reached; and there Outline and Draft are the LLM
\* outputs of the outline and draft runs and Final Content is the draft the
\* draft-approved webhook sent.
C12_EndToEnd ==
  /\ [][store'["rec1"].Status # store["rec1"].Status =>
          Rank(store'["rec1"].Status) = Rank(store["rec1"].Status) + 1]_vars
  /\ <>(store["rec1"].Status = "Complete")
  /\ [](store["rec1"].Status = "Complete" =>
          /\ store["rec1"].Outline = LLMText(RunOf("generateOutline"))
          /\ store["rec1"].Draft = LLMText(RunOf("generateDraft"))
          /\ last.route = "draft-approved"
          /\ store["rec1"].FinalContent = last.body.draft
          /\ store["rec1"].FinalContent = store["rec1"].Draft)

\* C12 witness: the record is Complete after three runs, one per stage
C12_Witness ==
  /\ store["rec1"].Status = "Complete"
  /\ \A r \in DOMAIN runs : runs[r].fn = StageFunctions[r] /\ runs[r].pc = "done"
  /\ store["rec1"].FinalContent = LLMText(2)
  /\ arrived = 2

----------------------------------------------------------------------------
(* Properties of the order of steps inside a run, checked under SpecStages *)

\* The record a run works on
RecordOf(r) == runs[r].ev.recordId.v[1]

\* Run r of function fn moves from step `from` to step `to` in this step
Moves(r, fn, from, to) ==
  /\ runs[r].fn = fn /\ runs[r].pc = from
  /\ runs'[r].pc = to

\* Run r of function fn keeps to the order of steps: it starts at the first,
\* a step is followed by the next one or by failure, only step `generation`
\* calls the LLM, and a run that has ended does nothing more
KeepsOrder(r, fn, steps, generation) ==
  /\ (runs[r].fn = "none" /\ runs'[r].fn = fn) => runs'[r].pc = steps[1]
  /\ (runs[r].fn = fn /\ runs'[r].pc # runs[r].pc) =>
       \/ runs'[r].pc = "failed" /\ runs[r].pc \notin {"done", "failed"}
       \/ \E i \in 1..(Len(steps) - 1) : runs[r].pc = steps[i] /\ runs'[r].pc = steps[i + 1]
  /\ (runs[r].fn = fn /\ runs'[r].llm # runs[r].llm) => runs[r].pc = generation
  /\ (runs[r].fn = fn /\ runs[r].pc \in {"done", "failed"}) => runs'[r] = runs[r]

OutlineSteps ==
  <<"store-run-id", "get-record", "assemble-context", "generate-outline",
    "update-outline", "done">>

\* C13: in every Generate-Outline run the write {Status: Generating, Inngest
\* Run ID: run id} is the first step, before the prompt is compiled and the
\* LLM called; {Outline, Status: Outline Review} is written only by the step
\* after the LLM call succeeded, with Outline equal to the LLM text; and the
\* run ends there, waiting for nothing.
C13_OutlineRunOrder ==
  [][/\ \A r \in RunIds :
          /\ KeepsOrder(r, "generateOutline", OutlineSteps, "generate-outline")
          /\ Moves(r, "generateOutline", "store-run-id", "get-record") =>
               /\ runs[r].llm = <<>>
               /\ store'[RecordOf(r)].Status = "Generating"
               /\ store'[RecordOf(r)].RunID = Str(<<"run-", ToString(r)>>)
          /\ Moves(r, "generateOutline", "update-outline", "done") =>
               /\ runs[r].llm # <<>>
               /\ runs[r].text = LLMText(r)
               /\ store'[RecordOf(r)].Outline = LLMText(r)
               /\ store'[RecordOf(r)].Status = "Outline Review"
     /\ \A id \in RecIds :
          store'[id].Outline # store[id].Outline =>
            \E r \in RunIds : /\ Moves(r, "generateOutline", "update-outline", "done")
                              /\ RecordOf(r) = id]_vars

\* C13 witness: an outline run whose first LLM call failed and whose second
\* succeeded has written its outline
C13_Witness ==
  \E r \in RunIds :
    /\ runs[r].fn = "generateOutline" /\ runs[r].pc = "done"
    /\ Len(runs[r].llm) = 2
    /\ store[RecordOf(r)].Outline = LLMText(r)
    /\ store[RecordOf(r)].Status = "Outline Review"
    /\ store[RecordOf(r)].RunID = Str(<<"run-", ToString(r)>>)

DraftSteps ==
  <<"update-drafting-status", "assemble-context", "generate-draft", "update-draft", "done">>

\* The call a run made last
LastCall(run) == run.llm[Len(run.llm)]

\* C14: in every Generate-Draft run Status is set to Drafting by the first
\* step, before the LLM call; every LLM call uses the prompt
\* draft-{contentType} compiled with the event's outline and the event's
\* feedback, the empty string when the event has none; {Draft, Status: Draft
\* Review} is written only by the step after the LLM call succeeded, with
\* Draft equal to the LLM text; and the run ends there, waiting for nothing.
C14_DraftRunOrder ==
  [][/\ \A r \in RunIds :
          /\ KeepsOrder(r, "generateDraft", DraftSteps, "generate-draft")
          /\ Moves(r, "generateDraft", "update-drafting-status", "assemble-context") =>
               /\ runs[r].llm = <<>>
               /\ store'[RecordOf(r)].Status = "Drafting"
          /\ (runs[r].fn = "generateDraft" /\ runs'[r].llm # runs[r].llm) =>
               /\ Len(runs'[r].llm) = Len(runs[r].llm) + 1
               /\ LastCall(runs'[r]).name = <<"draft-">> \o runs[r].ev.contentType.v
               /\ LastCall(runs'[r]).vars.outline = runs[r].ev.outline
               /\ LastCall(runs'[r]).vars.feedback =
                    (IF runs[r].ev.feedback = Undefined THEN Str(<<>>) ELSE runs[r].ev.feedback)
          /\ Moves(r, "generateDraft", "update-draft", "done") =>
               /\ runs[r].llm # <<>>
               /\ runs[r].text = LLMText(r)
               /\ store'[RecordOf(r)].Draft = LLMText(r)
               /\ store'[RecordOf(r)].Status = "Draft Review"
     /\ \A id \in RecIds :
          store'[id].Draft # store[id].Draft =>
            \E r \in RunIds : /\ Moves(r, "generateDraft", "update-draft", "done")
                              /\ RecordOf(r) = id]_vars

\* C14 witness: a draft run whose event had no feedback called the LLM with
\* empty feedback and has written its draft
C14_Witness ==
  \E r \in RunIds :
    /\ runs[r].fn = "generateDraft" /\ runs[r].pc = "done"
    /\ runs[r].ev.feedback = Undefined
    /\ LastCall(runs[r]).name = <<"draft-", "blog">>
    /\ LastCall(runs[r]).vars.feedback = Str(<<>>)
    /\ LastCall(runs[r]).vars.outline = Str(<<"O">>)
    /\ store[RecordOf(r)].Draft = LLMText(r)
    /\ store[RecordOf(r)].Status = "Draft Review"

----------------------------------------------------------------------------
(* Properties of the events the gateway emits, checked under SpecGateway *)

\* The event fields a stage function reads to compile its prompt
FieldsRead(name) ==
  CASE name = "content/outline.approved" -> {"recordId", "title", "contentType", "outline"}
    [] name = "content/draft.approved" -> {"recordId", "title", "contentType", "draft"}
    [] OTHER -> {}

\* C15: every event a webhook handler emits carries every field the stage
\* consuming it reads: title, contentType and outline for Generate-Draft on
\* content/outline.approved; contentType and title (for the finalize
\* prompt) and draft for Finalize on content/draft.approved.
C15_EventsCarryStageFields ==
  \A i \in 1..Len(last.emitted) :
    \A k \in FieldsRead(last.emitted[i].name) : last.emitted[i].data[k] # Undefined

----------------------------------------------------------------------------
(* Properties of the order of stages, checked under SpecStages *)

\* The step answers a request on `route` with success
Accepts(route) == inbox.route = route /\ inbox' = NoRequest /\ last'.status = 200

\* The step starts run r of function fn
Starts(r, fn) == runs[r].fn = "none" /\ runs'[r].fn = fn

\* C16: the outline-approved and draft-approved webhooks emit their event
\* only for a record whose Status is Outline Approved, respectively Draft
\* Approved, and Generate-Draft, respectively Finalize, is started for a
\* record only while its Status is that.
C16_StagePreconditions ==
  [][/\ Accepts("outline-approved") =>
          store[inbox.body.recordId.v[1]].Status = "Outline Approved"
     /\ Accepts("draft-approved") =>
          store[inbox.body.recordId.v[1]].Status = "Draft Approved"
     /\ \A r \in RunIds :
          /\ Starts(r, "generateDraft") =>
               store[runs'[r].ev.recordId.v[1]].Status = "Outline Approved"
          /\ Starts(r, "finalizeContent") =>
               store[runs'[r].ev.recordId.v[1]].Status = "Draft Approved"]_vars

----------------------------------------------------------------------------
(* Properties of the deprecated waiting pipeline, checked under SpecPipeline *)

PipelineRuns == {r \in RunIds : runs[r].fn = "contentPipeline"}

\* Run r's wait ends in this step with no event handed to it
TimesOut(r) ==
  /\ runs[r].fn = "contentPipeline" /\ WaitsFor(runs[r].pc) # "none"
  /\ runs'[r].pc # runs[r].pc
  /\ runs'[r].events = runs[r].events

\* C17: when a wait of the deprecated pipeline ends with no matching
\* content/outline.approved (respectively content/draft.approved) event, the
\* run writes Status Error to its record and nothing else, returns {status:
\* timeout, stage: outline} (respectively draft) without raising, and from
\* then on generates nothing and writes nothing.
C17_PipelineTimeout ==
  [][\A r \in PipelineRuns :
       /\ TimesOut(r) =>
            /\ runs'[r].pc = "done"
            /\ runs'[r].result = (IF runs[r].pc = "wait-outline-approval"
                                  THEN "timeout-outline" ELSE "timeout-draft")
            /\ store' = [store EXCEPT ![RecordOf(r)].Status = "Error"]
            /\ runs'[r].llm = runs[r].llm
       /\ runs[r].result \in {"timeout-outline", "timeout-draft"} =>
            /\ runs'[r] = runs[r]
            /\ store'[RecordOf(r)] = store[RecordOf(r)]]_vars

\* C17 witness: the draft approval never came: the run returned timeout at
\* stage draft and the record is in Error with its draft and no final content
C17_Witness ==
  \E r \in PipelineRuns :
    /\ runs[r].pc = "done" /\ runs[r].result = "timeout-draft"
    /\ Len(runs[r].events) = 1
    /\ store[RecordOf(r)].Status = "Error"
    /\ store[RecordOf(r)].Draft = LLMText(r)
    /\ store[RecordOf(r)].FinalContent = Undefined


\* What the stage function Finalize leaves of Final Content and Status for a
\* content/draft.approved event with the given data, the record being in
\* Draft Approved with no Final Content and the LLM answering `refined`:
\* the draft is copied, or refined when the prompt exists, or the run fails
FinalizeOutcome(data, refined) ==
  IF FirstStep("finalizeContent", data) = "finalize"
     \/ PromptName("finalize-", data.contentType) \in PromptNames
  THEN [FinalContent |-> FinalContentOf([NoRun EXCEPT !.ev = data, !.text = refined]),
        Status |-> "Complete"]
  ELSE [FinalContent |-> Undefined, Status |-> "Draft Approved"]

\* C18: the deprecated pipeline reaches the end state of the three stage
\* functions: a run that completes leaves Outline and Draft equal to the LLM
\* outputs, and Final Content and Status equal to what Finalize leaves for
\* the same content/draft.approved event, with Status Complete.
C18_SameEndState ==
  \A r \in PipelineRuns :
    runs[r].result = "complete" =>
      /\ runs[r].snap.Outline = LLMText(r)
      /\ runs[r].snap.Draft = LLMText(r)
      /\ runs[r].snap.Status = "Complete"
      /\ [FinalContent |-> runs[r].snap.FinalContent, Status |-> runs[r].snap.Status]
           = FinalizeOutcome(runs[r].events[2].data, Str(<<"llm-text-refined">>))

----------------------------------------------------------------------------
(* Properties of failing runs, checked under SpecStages *)

StageRuns == {r \in RunIds : runs[r].fn \in Range(StageFunctions)}

\* No other run has been started for the record of run r
OnlyRunOnRecord(r) ==
  \A other \in RunIds \ {r} : runs[other].fn = "none" \/ RecordOf(other) # RecordOf(r)

\* C19: no stage function writes Status Error; the step in which a run
\* fails writes nothing; Outline, Draft and Final Content change only in the
\* step that completes a run, so a failed run has not modified them; and
\* when the generation step of the only run on a record fails for good, the
\* record is in the status that run persisted: Generating for
\* Generate-Outline, Drafting for Generate-Draft.
C19_NoErrorStatus ==
  /\ [](/\ \A w \in lastWrite : w.new # "Error"
        /\ \A id \in RecIds : store[id].Status # "Error")
  /\ [][/\ \A r \in StageRuns :
             (runs'[r].pc = "failed" /\ runs[r].pc # "failed") =>
               /\ store' = store
               /\ (runs[r].pc = "generate-outline" /\ OnlyRunOnRecord(r)) =>
                    store[RecordOf(r)].Status = "Generating"
               /\ (runs[r].pc = "generate-draft" /\ OnlyRunOnRecord(r)) =>
                    store[RecordOf(r)].Status = "Drafting"
        /\ \A id \in RecIds :
             (\/ store'[id].Outline # store[id].Outline
              \/ store'[id].Draft # store[id].Draft
              \/ store'[id].FinalContent # store[id].FinalContent) =>
               \E r \in StageRuns : /\ RecordOf(r) = id
                                    /\ runs[r].pc # "done" /\ runs'[r].pc = "done"]_vars

\* C19 witness: the LLM failed all four attempts of a draft run: the run is
\* failed, the record is in Drafting with its outline and without a draft
C19_Witness ==
  \E r \in StageRuns :
    /\ runs[r].fn = "generateDraft" /\ runs[r].pc = "failed"
    /\ Len(runs[r].llm) = 4
    /\ OnlyRunOnRecord(r)
    /\ store[RecordOf(r)].Status = "Drafting"
    /\ store[RecordOf(r)].Outline = Str(<<"O">>)
    /\ store[RecordOf(r)].Draft = Undefined

----------------------------------------------------------------------------
(* Properties of retries and termination, checked under SpecRetry *)

\* Run r takes a step
Steps(r) == runs'[r] # runs[r]

\* C20: every run of Generate-Outline, Generate-Draft and Finalize ends: it
\* completes, or it is marked failed, and that only by the failure of the
\* third retry of a step; and a retry of the step that persists Generating,
\* respectively Drafting, after an attempt that already persisted it leaves
\* the record as that attempt left it.
C20_RunsTerminate ==
  /\ \A r \in DOMAIN StageFunctions :
       (runs[r].fn # "none") ~> (runs[r].pc \in {"done", "failed"})
  /\ [](\A r \in DOMAIN StageFunctions : runs[r].attempt <= 3)
  /\ [][\A r \in DOMAIN StageFunctions :
          /\ (runs'[r].pc = "failed" /\ runs[r].pc # "failed") => runs[r].attempt = 3
          /\ (/\ runs[r].pc \in {"store-run-id", "update-drafting-status"}
              /\ runs[r].attempt > 0
              /\ Steps(r)) =>
               store' = store]_vars

\* C20 witness: an attempt of store-run-id persisted Generating, its answer
\* was lost, and the retry has persisted the same values over them
C20_Witness ==
  \E r \in DOMAIN StageFunctions :
    /\ runs[r].fn = "generateOutline" /\ runs[r].pc = "get-record"
    /\ lastWrite = {[id |-> "rec1", old |-> "Generating", new |-> "Generating",
                     by |-> "generateOutline", fields |-> {"RunID", "Status"}]}
    /\ store["rec1"].RunID = Str(<<"run-", ToString(r)>>)
    /\ store["rec1"].Status = "Generating"

----------------------------------------------------------------------------
(* Properties of the context assembly, checked under SpecContext *)

\* The run has assembled its context
Assembled(r) == DOMAIN runs[r].ctx = ContextKeys

\* The Content of the last active artifact of a Type (Undefined: none)
LastArtifact(type) ==
  LET rows == SelectSeq(artifacts, LAMBDA a : a.type = type)
  IN IF rows = <<>> THEN Undefined ELSE rows[Len(rows)].content

\* What the file behind a static key holds ("" when there is no such file)
FileText(key) ==
  LET name == CASE key = "companyProfile" -> "company-profile"
                [] key = "voiceGuidelines" -> "voice-guidelines"
                [] key = "productOverview" -> "product-overview"
                [] OTHER -> "differentiators"
  IN IF files[name] = Undefined THEN Str(<<>>) ELSE files[name]

StaticKeys == {"companyProfile", "voiceGuidelines", "productOverview", "differentiators"}

\* The id a stage looks the industry (persona) up by: the event's, and in
\* generate-outline the fetched record's first link when the event has none
IndustryRef(run) ==
  IF Truthy(run.ev.industryId) THEN run.ev.industryId
  ELSE IF run.fn = "generateOutline" THEN FirstOf(run.record.Industry) ELSE Undefined

PersonaRef(run) ==
  IF Truthy(run.ev.personaId) THEN run.ev.personaId
  ELSE IF run.fn = "generateOutline" THEN FirstOf(run.record.Persona) ELSE Undefined

\* Artifacts override files, the linked records override artifacts
Precedence(run) ==
  /\ \A k \in StaticKeys :
        run.ctx[k] = IF LastArtifact(k) # Undefined THEN LastArtifact(k) ELSE FileText(k)
  /\ run.ctx.industry = IF Truthy(IndustryRef(run)) THEN IndustryRef(run) ELSE Null
  /\ run.ctx.persona = IF Truthy(PersonaRef(run)) THEN PersonaRef(run) ELSE Null
  /\ \A i \in 1..Len(run.llm), k \in StaticKeys : run.llm[i].vars[k] = run.ctx[k]

\* C21 as stated: the fallback names are used whenever the event carries
\* no industryId (personaId), in every stage.
C21_Original ==
  \A r \in DOMAIN runs :
    Assembled(r) =>
      /\ Precedence(runs[r])
      /\ \A i \in 1..Len(runs[r].llm) :
            /\ ~Truthy(runs[r].ev.industryId) =>
                  runs[r].llm[i].vars.industryName = Str(<<"General">>)
            /\ ~Truthy(runs[r].ev.personaId) =>
                  runs[r].llm[i].vars.personaName = Str(<<"General audience">>)

\* C21: in the context a stage assembles, an active artifact overrides the
\* static file under the same key (the last row of a Type wins), and the
\* resolved industry and persona override an artifact of the same key; the
\* prompt receives industryName "General" (personaName "General audience")
\* when the stage has no industry (persona) to look up: the event carries
\* none and, in generate-outline, the fetched record links none either.
C21_ContextPrecedence ==
  \A r \in DOMAIN runs :
    Assembled(r) =>
      /\ Precedence(runs[r])
      /\ \A i \in 1..Len(runs[r].llm) :
            /\ ~Truthy(IndustryRef(runs[r])) =>
                  runs[r].llm[i].vars.industryName = Str(<<"General">>)
            /\ ~Truthy(PersonaRef(runs[r])) =>
                  runs[r].llm[i].vars.personaName = Str(<<"General audience">>)

\* C21 witness: a draft prompt compiled with companyProfile from the later
\* of two artifacts although the file exists, an artifact typed "industry"
\* displaced by the lookup, and no persona in the event
C21_Witness ==
  \E r \in DOMAIN runs :
    /\ runs[r].fn = "generateDraft" /\ Len(runs[r].llm) = 1
    /\ files["company-profile"] # Undefined
    /\ LastArtifact("companyProfile") = Str(<<"A2">>)
    /\ runs[r].llm[1].vars.companyProfile = Str(<<"A2">>)
    /\ LastArtifact("industry") = Str(<<"A3">>)
    /\ runs[r].ctx.industry = Str(<<"i1">>)
    /\ runs[r].ev.personaId = Undefined
    /\ runs[r].ctx.persona = Null
    /\ runs[r].llm[1].vars.personaName = Str(<<"General audience">>)

----------------------------------------------------------------------------
(* Properties of the context loader, checked under SpecLoader *)

\* This step is a call of getContext or getContextBundle
LoaderCalled == returned'.n # returned.n

\* C22: a name the cache holds is answered from the cache by every getContext
\* and getContextBundle, whatever the file holds by then, and its entry stays
\* as it is until clearContextCache empties the cache; a name the cache does
\* not hold (never loaded, or cleared) is read from its file, and an
\* existing file's content is cached by that call.
C22_CacheUntilCleared ==
  [][\A name \in ContextNames :
       /\ contextCache[name] # Undefined =>
             /\ (LoaderCalled /\ name \in returned'.names) =>
                   returned'.value[name] = contextCache[name]
             /\ \/ contextCache'[name] = contextCache[name]
                \/ \A other \in ContextNames : contextCache'[other] = Undefined
       /\ (contextCache[name] = Undefined /\ LoaderCalled /\ name \in returned'.names) =>
             IF files[name] = Undefined
             THEN returned'.value[name] = Str(<<>>) /\ contextCache'[name] = Undefined
             ELSE returned'.value[name] = files[name] /\ contextCache'[name] = files[name]
    ]_vars

\* C22 witness: getContext returned the content loaded earlier although the
\* file had been rewritten by the time of the call
C22_Witness ==
  /\ returned.op = "getContext" /\ returned.names = {"company-profile"}
  /\ returned.disk["company-profile"] = Str(<<"edited">>)
  /\ returned.value["company-profile"] = Str(<<"company-profile", ".md">>)

----------------------------------------------------------------------------
(* Properties of the batch dispatcher, checked under SpecBatch *)

\* The record ids of a batch run
IdsOf(run) == run.ev.recordIds.v

\* A step of batch run r is taken
BatchStep(r) == runs[r].fn = "batchTrigger" /\ runs'[r] # runs[r]

\* The start event a batch owes to the record at position i of its list
StartEventFor(id) ==
  [name |-> "content/pipeline.start",
   data |-> [k \in Keys |->
               CASE k = "recordId" -> Str(<<id>>)
                 [] k = "title" -> store[id].Title
                 [] k = "contentType" -> store[id].ContentType
                 [] k = "industryId" ->
                      IF store[id].Industry = Undefined THEN Undefined
                      ELSE Str(<<store[id].Industry.v[1]>>)
                 [] k = "personaId" ->
                      IF store[id].Persona = Undefined THEN Undefined
                      ELSE Str(<<store[id].Persona.v[1]>>)
                 [] k = "keywords" -> store[id].TargetKeywords
                 [] OTHER -> Undefined]]

\* Positions 10k+1 .. 10k+10 of a list of n ids
ChunkPositions(k, n) == {i \in 1..n : 10 * k < i /\ i <= 10 * (k + 1)}

\* The store after the records of the given ids are set to Generating
Generating(ids) ==
  [id \in DOMAIN store |->
     IF id \in ids THEN [store[id] EXCEPT !.Status = "Generating"] ELSE store[id]]

\* C23: a "start" batch whose N records all load emits exactly the N
\* content/pipeline.start events, in input order and in one send, each with
\* its record's Title, first Industry, first Persona, Content Type and Target
\* Keywords, and writes nothing before that; it then sets Status Generating
\* chunk by chunk, chunk k being positions 10k+1..10k+10 of the list, and
\* ends with the chunk that reaches position N.
C23_BatchStart ==
  [][\A r \in DOMAIN runs :
       (BatchStep(r) /\ runs[r].ev.action = Str(<<"start">>)
          /\ \A i \in 1..Len(IdsOf(runs[r])) : IdsOf(runs[r])[i] \in DOMAIN store) =>
         LET ids == IdsOf(runs[r])
             n == Len(ids)
             k == runs[r].chunk
         IN CASE runs[r].pc = "prepare-batch-events" ->
                   /\ queue' = queue /\ store' = store
                   /\ runs'[r].pc = "send-batch-events"
              [] runs[r].pc = "send-batch-events" ->
                   /\ queue' = queue \o [i \in 1..n |-> StartEventFor(ids[i])]
                   /\ store' = store
                   /\ runs'[r].pc = "update-statuses" /\ runs'[r].chunk = 0
              [] runs[r].pc = "update-statuses" ->
                   /\ queue' = queue
                   /\ ChunkPositions(k, n) # {}
                   /\ store' = Generating({ids[i] : i \in ChunkPositions(k, n)})
                   /\ runs'[r].chunk = k + 1
                   /\ runs'[r].pc = IF 10 * (k + 1) >= n THEN "done" ELSE "update-statuses"
              [] OTHER -> FALSE
    ]_vars

\* C23 witness: a batch of twelve ended after its second chunk
C23_Witness ==
  \E r \in DOMAIN runs :
    /\ runs[r].fn = "batchTrigger" /\ runs[r].pc = "done"
    /\ runs[r].result = "batch-started"
    /\ Len(IdsOf(runs[r])) = 12 /\ Len(runs[r].events) = 12 /\ runs[r].chunk = 2
    /\ IdsOf(runs[r])[1] = "rec12"

\* C24: a "start" batch with one id whose record cannot be fetched gets no
\* further than its first step: whatever step of it is taken, no event is
\* added to the queue and no record is changed, the records that could be
\* fetched included.
C24_NoIsolation ==
  [][\A r \in DOMAIN runs :
       (BatchStep(r) /\ runs[r].ev.action = Str(<<"start">>)
          /\ \E i \in 1..Len(IdsOf(runs[r])) : IdsOf(runs[r])[i] \notin DOMAIN store) =>
         /\ queue' = queue /\ store' = store
         /\ runs[r].pc = "prepare-batch-events"
         /\ runs'[r].pc \in {"prepare-batch-events", "failed"}
         /\ runs'[r].events = <<>>
    ]_vars

\* C24 witness: the batch of rec2 and a missing record has failed, and rec2,
\* which could be fetched, is as it was
C24_Witness ==
  \E r \in DOMAIN runs :
    /\ runs[r].fn = "batchTrigger" /\ runs[r].pc = "failed"
    /\ IdsOf(runs[r]) = <<"rec2", "recX">>
    /\ store["rec2"].Status = "Outline Review"
    /\ \A i \in 1..Len(queue) : queue[i].name # "content/pipeline.start"

----------------------------------------------------------------------------
(* Properties of the SEO score, checked under SpecScore *)

\* Two calls of calculateSEOScore in a row
TwoScores == returned.op = "calculateSEOScore" /\ returned'.op = "calculateSEOScore"

\* C25: of two scored keywords with the same difficulty and SERP features,
\* the one with the larger search volume scores at least as much; of two
\* with the same volume and SERP features, the one with the larger
\* difficulty scores at most as much.
C25_ScoreMonotone ==
  [][TwoScores =>
       LET a == returned.data
           b == returned'.data
       IN /\ (a.keywordDifficulty = b.keywordDifficulty
                /\ a.serpFeatures = b.serpFeatures
                /\ a.searchVolume <= b.searchVolume) => returned.value <= returned'.value
          /\ (a.searchVolume = b.searchVolume
                /\ a.serpFeatures = b.serpFeatures
                /\ a.keywordDifficulty <= b.keywordDifficulty) => returned.value >= returned'.value
    ]_vars

\* C25 witness: a keyword above the volume cap, with both bonuses and an odd
\* difficulty, scored 50 + 49.5 + 8 rounded up
C25_Witness ==
  /\ returned.op = "calculateSEOScore"
  /\ returned.data.searchVolume = 9000 /\ returned.data.keywordDifficulty = 1
  /\ returned.data.serpFeatures = {"Featured Snippet", "PAA"}
  /\ returned.value = 108

----------------------------------------------------------------------------
(* Properties of the title generator, checked under SpecTitles *)

\* The text holds an opening brace with a closing brace somewhere after it
HasBraces(s) == \E i, j \in 1..Len(s) : i < j /\ s[i] = "{" /\ s[j] = "}"

\* The text from its first opening brace to its last closing brace
BraceSpan(s) ==
  SubSeq(s, CHOOSE i \in 1..Len(s) : s[i] = "{" /\ \A k \in 1..(i - 1) : s[k] # "{",
            CHOOSE j \in 1..Len(s) : s[j] = "}" /\ \A k \in (j + 1)..Len(s) : s[k] # "}")

\* The case of the fallback: no brace-delimited substring, or one that is not JSON
Unparsable(s) == ~HasBraces(s) \/ ~JSONParse(BraceSpan(s)).ok

\* C26: whatever text Claude returned, the step after "generate" of a
\* Generate-Titles run completes the run and leaves the idea with Status
\* Review; when the text has no brace-delimited substring, or that substring
\* is not valid JSON, the idea gets Title "", Competitor Analysis "" and the
\* raw text as Content Angles.
C26_TitleFallback ==
  [][\A r \in DOMAIN runs :
       (runs[r].fn = "generateTitles" /\ runs[r].pc = "save-title" /\ runs'[r] # runs[r]) =>
         LET id == runs[r].ev.recordId.v[1] IN
         /\ runs'[r].pc = "done" /\ runs'[r].result = "complete"
         /\ ideas'[id].Status = "Review"
         /\ Unparsable(runs[r].text.v) =>
              /\ ideas'[id].Title = Str(<<>>)
              /\ ideas'[id].CompetitorAnalysis = Str(<<>>)
              /\ ideas'[id].ContentAngles = runs[r].text
    ]_vars

\* C26 witness: a run completed on a response of two objects in a row, which
\* the match spans as one string that is not JSON
C26_Witness ==
  \E r \in DOMAIN runs :
    /\ runs[r].fn = "generateTitles" /\ runs[r].pc = "done"
    /\ runs[r].text = Str(<<"{", "}", "{", "}">>)
    /\ ideas["idea1"].Status = "Review"
    /\ ideas["idea1"].ContentAngles = runs[r].text
    /\ ideas["idea1"].Title = Str(<<>>)

----------------------------------------------------------------------------
(* Properties of keyword research, checked under SpecResearch *)

\* The Keyword Bank row a research run was started for
SeedOf(run) == run.ev.recordId.v[1]

ResearchRuns == {r \in DOMAIN runs : runs[r].fn = "keywordResearch"}

\* The rows of the bank other than id are as they were
OtherRowsKept(id) ==
  \A k \in DOMAIN keywordBank : k # id => (k \in DOMAIN keywordBank' /\ keywordBank'[k] = keywordBank[k])

\* What a step of research run r does to the Keyword Bank
ResearchWrites(r) ==
  LET id == SeedOf(runs[r]) IN
  CASE runs[r].pc = "status-researching" /\ runs'[r].pc # "failed" /\ runs'[r].pc # "status-researching" ->
         /\ DOMAIN keywordBank' = DOMAIN keywordBank /\ OtherRowsKept(id)
         /\ keywordBank'[id].Status = "Researching"
    [] runs[r].pc = "update-seed-record" ->
         /\ DOMAIN keywordBank' = DOMAIN keywordBank /\ OtherRowsKept(id)
         /\ keywordBank'[id].Status = "New"
    [] runs[r].pc = "create-related" ->
         /\ OtherRowsKept(id) /\ keywordBank'[id] = keywordBank[id]
         /\ \E new \in DOMAIN keywordBank' \ DOMAIN keywordBank :
              /\ DOMAIN keywordBank' = DOMAIN keywordBank \cup {new}
              /\ keywordBank'[new].Status = "New"
              /\ runs'[r].ctx.created = Append(runs[r].ctx.created, new)
    [] OTHER -> keywordBank' = keywordBank

\* C27: a keyword-research run writes the Keyword Bank in this order only:
\* Status Researching on its seed row, then Status New on the seed row, then
\* one new row with Status New per related keyword; a run that has completed
\* has its seed row and every row it created at Status New; and a run's
\* Research Job is Complete only if the seed row is at New.
C27_ResearchFlow ==
  /\ [][\A r \in ResearchRuns : runs'[r] # runs[r] => ResearchWrites(r)]_vars
  /\ [](\A r \in ResearchRuns :
          /\ runs[r].pc = "done" =>
               /\ keywordBank[SeedOf(runs[r])].Status = "New"
               /\ \A i \in 1..Len(runs[r].ctx.created) :
                    keywordBank[runs[r].ctx.created[i]].Status = "New"
          /\ (runs[r].pc # "create-research-job" /\ jobs[runs[r].ctx.job].Status = "Complete") =>
               /\ SeedOf(runs[r]) \in DOMAIN keywordBank
               /\ keywordBank[SeedOf(runs[r])].Status = "New")

\* C27 witness: the run for the mixed-case seed completed with one related
\* row created, a lower-case duplicate of the seed and a low-volume idea
\* left out, and its job Complete with two keywords counted
C27_Witness ==
  \E r \in ResearchRuns :
    /\ runs[r].pc = "done" /\ runs[r].result = "complete"
    /\ SeedOf(runs[r]) = "kw1"
    /\ Len(runs[r].ctx.keywords) = 4
    /\ Len(runs[r].ctx.created) = 1
    /\ keywordBank["kw1"].Status = "New"
    /\ keywordBank[runs[r].ctx.created[1]].Keyword = Str(<<"seo report">>)
    /\ jobs[runs[r].ctx.job].Status = "Complete"
    /\ jobs[runs[r].ctx.job].KeywordsCreated = 2

----------------------------------------------------------------------------
(* Properties of the promotion to the pipeline, checked under SpecPromote *)

PromoteRuns == {r \in DOMAIN runs : runs[r].fn = "promoteToPipeline"}

\* The keywords linked to an idea (one token each), in link order, with ", "
\* between them
CommaList(id) ==
  LET ids == ideas[id].Keywords.v IN
  Str([i \in 1..(2 * Len(ids) - 1) |->
         IF i % 2 = 1 THEN keywordBank[ids[(i + 1) \div 2]].Keyword.v[1] ELSE ", "])

\* Runs that have got past their create step
Promoting == {r \in PromoteRuns : runs[r].pc = "update-idea-status" \/ runs[r].result = "complete"}

\* What a step of promote run r does to the two tables
PromoteWrites(r) ==
  LET id == runs[r].ev.recordId.v[1] IN
  CASE runs[r].pc = "create-pipeline-record" ->
         /\ ideas' = ideas
         /\ Len(ideas[id].Keywords.v) >= 1
         /\ \E new \in DOMAIN store' \ DOMAIN store :
              /\ DOMAIN store' = DOMAIN store \cup {new}
              /\ \A k \in DOMAIN store : store'[k] = store[k]
              /\ store'[new].Status = "Draft"
              /\ store'[new].TargetKeywords = CommaList(id)
              /\ runs'[r].ctx.pipelineRecordId = Str(<<new>>)
    [] runs[r].pc = "update-idea-status" ->
         /\ store' = store
         /\ runs[r].ctx.pipelineRecordId.v[1] \in DOMAIN store
         /\ ideas'[id].Status = "Promoted"
         /\ ideas'[id].PromotedRecordID = runs[r].ctx.pipelineRecordId
         /\ runs'[r].pc = "done" /\ runs'[r].result = "complete"
    [] OTHER -> store' = store /\ ideas' = ideas

----------------------------------------------------------------------------
(* Properties of the function registration, checked under SpecRegistry *)

\* The events the two routers emit
EmittedNames ==
  {"content/pipeline.start", "content/outline.approved", "content/draft.approved",
   "content/batch.trigger", "keyword/research.start", "keyword/cluster.auto",
   "keyword/generate-title", "keyword/promote", "keyword/gap-analysis.start"}

Pending(name) == \E i \in 1..Len(queue) : queue[i].name = name

\* A run of the served function that listens to the event has been started
Started(name) ==
  \E r \in DOMAIN runs : runs[r].fn # "none" /\ runs[r].fn = FunctionOf(name)

\* C29: every event a route has emitted eventually starts a run of a served
\* function. (Violated: no served function listens to keyword/cluster.auto.)
C29_EveryEventConsumed == \A name \in EmittedNames : Pending(name) ~> Started(name)

----------------------------------------------------------------------------
(* Properties of concurrent draft runs, checked under SpecStages *)

DraftRuns == {r \in DOMAIN runs : runs[r].fn = "generateDraft"}

\* C30: whenever a Generate-Draft run executes its last step on a record
\* that exists, whatever the record holds and whatever other runs have
\* written, the step succeeds and leaves Draft equal to that run's LLM output
\* and Status Draft Review, every other field and record as it was. So after
\* two such runs the record holds the output of the run that wrote last.
C30_LastWriterWins ==
  [][\A r \in DraftRuns :
       (runs[r].pc = "update-draft" /\ runs'[r] # runs[r] /\ RecordFound(runs[r].ev.recordId)) =>
         LET id == runs[r].ev.recordId.v[1] IN
         /\ runs'[r].pc = "done"
         /\ store'[id].Draft = runs[r].text
         /\ store'[id].Status = "Draft Review"
         /\ \A f \in DOMAIN store[id] \ {"Draft", "Status"} : store'[id][f] = store[id][f]
         /\ \A k \in DOMAIN store \ {id} : store'[k] = store[k]
    ]_vars

\* C30 witness: two Generate-Draft runs for rec1 have both completed, the
\* one started first wrote last, and the record holds its output
C30_Witness ==
  /\ \A r \in {1, 2} :
       /\ runs[r].fn = "generateDraft" /\ runs[r].pc = "done"
       /\ runs[r].ev.recordId = Str(<<"rec1">>)
  /\ runs[1].text # runs[2].text
  /\ store["rec1"].Draft = runs[1].text
  /\ store["rec1"].Status = "Draft Review"
  /\ \E w \in lastWrite : w.by = "generateDraft" /\ w.old = "Draft Review"

----------------------------------------------------------------------------
(* Properties of the waiting pipeline, checked under SpecWaiting *)

WaitingRuns ==
  {r \in DOMAIN runs : runs[r].fn = "contentPipeline" /\ WaitsFor(runs[r].pc) # "none"}

\* The approval event run r was resumed by at its first or second wait
ApprovalOf(r, n) == runs[r].events[n]

\* C31: a waiting run leaves its wait only by timing out or when the event
\* being dispatched is the approval it waits for with its own record id, and
\* it keeps that event; the draft prompt is then given the outline and
\* feedback of the outline approval it kept, and Final Content is the draft
\* of the draft approval it kept.
C31_MatchingResumes ==
  /\ [][\A r \in WaitingRuns :
          runs'[r] # runs[r] =>
            \/ runs'[r].pc = "done" /\ runs'[r].result \in {"timeout-outline", "timeout-draft"}
            \/ /\ queue # <<>>
               /\ Head(queue).name =
                    (IF runs[r].pc = "wait-outline-approval"
                     THEN "content/outline.approved" ELSE "content/draft.approved")
               /\ Head(queue).data.recordId = runs[r].ev.recordId
               /\ queue' = Tail(queue)
               /\ runs'[r].events = Append(runs[r].events, Head(queue))
               /\ runs'[r].pc =
                    (IF runs[r].pc = "wait-outline-approval"
                     THEN "update-drafting-status" ELSE "finalize")]_vars
  /\ [][\A r \in DOMAIN runs :
          (runs[r].fn = "contentPipeline" /\ runs'[r].pc # runs[r].pc) =>
            /\ (runs[r].pc = "generate-draft" /\ runs'[r].pc = "update-draft") =>
                 LET call == runs'[r].llm[Len(runs'[r].llm)] IN
                 /\ ApprovalOf(r, 1).name = "content/outline.approved"
                 /\ ApprovalOf(r, 1).data.recordId = runs[r].ev.recordId
                 /\ call.vars.outline = ApprovalOf(r, 1).data.outline
                 /\ call.vars.feedback = ApprovalOf(r, 1).data.feedback
            /\ (runs[r].pc = "finalize" /\ runs'[r].pc = "done") =>
                 /\ ApprovalOf(r, 2).name = "content/draft.approved"
                 /\ ApprovalOf(r, 2).data.recordId = runs[r].ev.recordId
                 /\ store'[runs[r].ev.recordId.v[1]].FinalContent = ApprovalOf(r, 2).data.draft]_vars

\* C31 witness: runs for rec1 and rec2 were both waiting for their outline
\* approval; the approval of rec2 has been dispatched, the run of rec2 has
\* written its draft from the approved outline, the run of rec1 still waits
C31_Witness ==
  /\ runs[1].fn = "contentPipeline" /\ runs[1].ev.recordId = Str(<<"rec1">>)
  /\ runs[1].pc = "wait-outline-approval" /\ runs[1].events = <<>>
  /\ runs[2].fn = "contentPipeline" /\ runs[2].ev.recordId = Str(<<"rec2">>)
  /\ runs[2].pc = "wait-draft-approval"
  /\ runs[2].events[1].data.outline = Str(<<"approved outline of ", "rec2">>)
  /\ runs[2].llm[Len(runs[2].llm)].vars.outline = Str(<<"approved outline of ", "rec2">>)

----------------------------------------------------------------------------
(* The batch function against the outline runs it starts, checked under
   SpecBatch *)

\* The batch runs that have completed a start whose records all loaded
CompletedBatches ==
  {b \in DOMAIN runs : /\ runs[b].fn = "batchTrigger" /\ runs[b].pc = "done"
                       /\ runs[b].result = "batch-started"}

\* The outline runs that have completed for a record of batch run b
CompletedOutlines(b) ==
  {o \in DOMAIN runs : /\ runs[o].fn = "generateOutline" /\ runs[o].pc = "done"
                       /\ runs[o].result = "outline-ready"
                       /\ \E i \in 1..Len(IdsOf(runs[b])) :
                            runs[o].ev.recordId = Str(<<IdsOf(runs[b])[i]>>)}

\* C32: once a batch run that was started with loadable records has
\* completed and the outline run of one of its records has completed too,
\* that record's Status is Outline Review.
C32_BatchThenReview ==
  \A b \in CompletedBatches : \A o \in CompletedOutlines(b) :
    store[runs[o].ev.recordId.v[1]].Status = "Outline Review"

----------------------------------------------------------------------------
(* Properties of the clusterer, checked under SpecCluster *)

\* The step of run r that is being taken leads from pc to next
ClusterStep(r, pc, next) ==
  /\ runs[r].fn = "autoCluster" /\ runs[r].pc = pc
  /\ runs'[r].fn = "autoCluster" /\ runs'[r].pc = next

\* C33: the step update-idea of a run that completes writes as Keywords the
\* selectedIds the LLM step returned, every one of them being Clustered and
\* linked to the idea by then, and the run returns their number as
\* keywordsClustered.
C33_LinkedAsSelected ==
  [][\A r \in DOMAIN runs :
       ClusterStep(r, "update-idea", "done") =>
         LET selectedIds == SelectedIds(runs[r])
             recordId == runs[r].ev.recordId.v[1]
         IN /\ \A i \in 1..Len(selectedIds) :
                 /\ keywordBank[selectedIds[i]].Status = "Clustered"
                 /\ keywordBank[selectedIds[i]].Cluster = Arr(<<recordId>>)
            /\ ideas'[recordId].Keywords = Arr(selectedIds)
            /\ runs'[r].result = "complete"
            /\ runs'[r].ctx.keywordsClustered = Len(selectedIds)]_vars

\* The keywords of the bank that match a seed topic, by Seed Topic or by
\* being the seed itself, and are neither clustered nor rejected
Unclustered(seedTopic) ==
  {id \in DOMAIN keywordBank :
     /\ keywordBank[id].SeedTopic = seedTopic \/ keywordBank[id].Keyword = seedTopic
     /\ keywordBank[id].Status \notin {"Clustered", "Rejected"}}

\* C34: a run that finds no unclustered keyword for its seed topic goes to
\* the step that sets the idea's Status to Draft and returns no-keywords,
\* having called the LLM not once and leaving the Keyword Bank as it was; a
\* run that finds one goes on, and the step it completes with sets Status
\* Review.
C34_NoCandidates ==
  [][\A r \in DOMAIN runs :
       (runs[r].fn = "autoCluster" /\ runs'[r] # runs[r]) =>
         LET recordId == runs[r].ev.recordId.v[1] IN
         /\ runs[r].pc = "get-keywords" =>
              /\ runs'[r].pc = (IF Unclustered(runs[r].ev.seedTopic) = {}
                                THEN "no-keywords" ELSE "prepare-keywords")
              /\ keywordBank' = keywordBank /\ runs'[r].llm = <<>>
         /\ runs[r].pc = "no-keywords" =>
              /\ ideas' = [ideas EXCEPT ![recordId].Status = "Draft"]
              /\ keywordBank' = keywordBank
              /\ runs'[r].llm = <<>>
              /\ runs'[r].pc = "done" /\ runs'[r].result = "no-keywords"
         /\ runs'[r].result = "no-keywords" => runs[r].pc = "no-keywords"
         /\ runs'[r].result = "complete" =>
              /\ runs[r].pc = "update-idea"
              /\ ideas'[recordId].Status = "Review"]_vars

\* C34 witness: one run has clustered for seed "seo" and completed; a later
\* run for seed "ppc", whose only match is rejected, has returned
\* no-keywords without an LLM call and left the idea in Draft
C34_Witness ==
  /\ runs[1].fn = "autoCluster" /\ runs[1].result = "complete"
  /\ runs[1].ev.seedTopic = Str(<<"seo">>)
  /\ runs[2].fn = "autoCluster" /\ runs[2].result = "no-keywords"
  /\ runs[2].ev.seedTopic = Str(<<"ppc">>) /\ runs[2].llm = <<>>
  /\ ideas["idea1"].Status = "Draft"
  /\ keywordBank["kw4"].Status = "Rejected" /\ keywordBank["kw1"].Status = "Clustered"

----------------------------------------------------------------------------
(* Batches that are not a start, checked under SpecBatch *)

\* The batch webhook is answering a request whose action is not "start"
AnswersOtherAction ==
  /\ inbox.route = "batch" /\ inbox.body.action # Str(<<"start">>)
  /\ inbox.secret = env /\ inbox' = NoRequest

\* Inngest is dispatching a batch event whose action is not "start"
DispatchesOtherAction ==
  /\ queue # <<>> /\ Head(queue).name = "content/batch.trigger"
  /\ Head(queue).data.action # Str(<<"start">>)
  /\ Len(queue') < Len(queue)

\* C35: the batch webhook accepts a non-empty list of at most 100 ids with
\* an action other than "start" and sends the batch event; the run started
\* for that event completes at once with unknown-action, having prepared no
\* event and with no record changed, and takes no step afterwards.
C35_UnknownAction ==
  [][/\ AnswersOtherAction =>
          IF Len(inbox.body.recordIds.v) \in 1..MaxBatchSize
          THEN /\ last'.status = 200 /\ last'.success
               /\ queue' = Append(queue, Event("content/batch.trigger",
                                                [EmptyObj EXCEPT
                                                   !.recordIds = inbox.body.recordIds,
                                                   !.action = inbox.body.action]))
          ELSE last'.status = 400 /\ queue' = queue
     /\ DispatchesOtherAction =>
          /\ queue' = Tail(queue) /\ store' = store /\ lastWrite' = lastWrite
          /\ \E r \in DOMAIN runs :
               /\ runs[r].fn = "none" /\ runs'[r].fn = "batchTrigger"
               /\ runs'[r].ev = Head(queue).data
               /\ runs'[r].pc = "done" /\ runs'[r].result = "unknown-action"
               /\ runs'[r].events = <<>> /\ runs'[r].chunk = 0
               /\ \A o \in DOMAIN runs \ {r} : runs'[o] = runs[o]
     /\ \A r \in DOMAIN runs :
          (runs[r].fn = "batchTrigger" /\ runs[r].ev.action # Str(<<"start">>)) =>
            /\ runs'[r] = runs[r]
            /\ runs[r].pc = "done" /\ runs[r].result = "unknown-action"]_vars

\* C35 witness: a "continue" batch of twelve records was accepted and its
\* run has returned unknown-action; no record has left its Status and no
\* event is pending
C35_Witness ==
  \E r \in DOMAIN runs :
    /\ runs[r].fn = "batchTrigger" /\ runs[r].ev.action = Str(<<"continue">>)
    /\ Len(IdsOf(runs[r])) = 12
    /\ runs[r].pc = "done" /\ runs[r].result = "unknown-action"
    /\ runs[r].events = <<>>
    /\ last.route = "batch" /\ last.status = 200 /\ last.body.action = Str(<<"continue">>)
    /\ store = BatchStore /\ queue = <<>>

----------------------------------------------------------------------------
(* The fields each stage writes, checked under SpecStages *)

\* The fields the updateRecord calls of a stage function name
OwnFields(fn) ==
  CASE fn = "generateOutline" -> {"RunID", "Status", "Outline"}
    [] fn = "generateDraft" -> {"Status", "Draft"}
    [] fn = "finalizeContent" -> {"FinalContent", "Status"}
    [] OTHER -> {}

\* The fields of record id that differ after the step
ChangedFields(id) == {f \in DOMAIN store[id] : store'[id][f] # store[id][f]}

\* C36: a step of a stage function changes no record but the one its event
\* names, and of that record only fields the stage owns: Run ID, Status and
\* Outline for Generate-Outline, Status and Draft for Generate-Draft, Final
\* Content and Status for Finalize.
C36_OwnFieldsOnly ==
  [][\A r \in DOMAIN runs :
       (runs[r].fn \in {"generateOutline", "generateDraft", "finalizeContent"}
          /\ runs'[r] # runs[r]) =>
         \A id \in DOMAIN store :
           /\ ChangedFields(id) \subseteq OwnFields(runs[r].fn)
           /\ ChangedFields(id) # {} => runs[r].ev.recordId = Str(<<id>>)]_vars

\* C36 witness: a record approved with outline feedback has been drafted;
\* its feedback, outline and title are what they were before the draft run
C36_Witness ==
  \E r \in DOMAIN runs :
    /\ runs[r].fn = "generateDraft" /\ runs[r].pc = "done"
    /\ runs[r].ev.recordId = Str(<<"rec1">>)
    /\ store["rec1"].OutlineFeedback = Str(<<"fix">>)
    /\ store["rec1"].Outline # Undefined /\ store["rec1"].Draft = runs[r].text
    /\ store["rec1"].Title = DefaultStore["rec1"].Title
    /\ store["rec1"].FinalContent = Undefined
    /\ \E w \in lastWrite : w.by = "generateDraft" /\ w.fields = {"Draft", "Status"}

----------------------------------------------------------------------------
(* The range of the SEO score, checked under SpecScore *)

\* C37: for a search volume of 0 or more, a difficulty within 0..100 and any
\* set of SERP features, calculateSEOScore returns a number within 0..100.
C37_ScoreInRange ==
  (/\ returned.op = "calculateSEOScore"
   /\ returned.data.searchVolume >= 0
   /\ returned.data.keywordDifficulty \in 0..100) =>
     (0 <= returned.value /\ returned.value <= 100)

----------------------------------------------------------------------------
(* Missing context files, checked under SpecLoader *)

\* getContext(name) is being called while the cache holds nothing for name
UncachedCall(name) ==
  /\ LoaderCalled /\ returned'.op = "getContext" /\ returned'.names = {name}
  /\ contextCache[name] = Undefined

\* C38: getContext of a name that has no cache entry and no file returns ""
\* and leaves the name without a cache entry; writing or deleting a file
\* leaves the cache as it is; and getContext of a name without a cache
\* entry whose file exists returns the file's content. A file created after
\* a call that missed it is therefore returned by the next call, with no
\* clearContextCache in between.
C38_MissingNotCached ==
  [][\A name \in ContextNames :
       /\ (UncachedCall(name) /\ files[name] = Undefined) =>
            /\ returned'.value[name] = Str(<<>>)
            /\ contextCache'[name] = Undefined
       /\ files'[name] # files[name] => contextCache' = contextCache
       /\ (UncachedCall(name) /\ files[name] # Undefined) =>
            returned'.value[name] = files[name]]_vars

\* C38 witness: the last call was getContext("product-overview") while the
\* file was missing; it returned "" and left no cache entry, and the file
\* has been created since, other names staying cached
C38_Witness ==
  /\ returned.op = "getContext" /\ returned.names = {"product-overview"}
  /\ returned.disk["product-overview"] = Undefined
  /\ returned.value["product-overview"] = Str(<<>>)
  /\ contextCache["product-overview"] = Undefined
  /\ contextCache["company-profile"] # Undefined
  /\ files["product-overview"] = Str(<<"edited">>)

====
